---- MODULE Spec2Model ----
(***************************************************************************)
(* Travel-Plan-Permission: the approval state machine of TripPlan, the     *)
(* hash-chained ValidationSnapshotStore and the ExceptionRequest           *)
(* escalation workflow (models.py, snapshots.py).                          *)
(***************************************************************************)
EXTENDS Integers, Sequences, FiniteSets, TLC

VARIABLES
    plan,      \* the TripPlan: trip_id, status, approval_history, validation_results
    files,     \* the snapshot directory tree: one record per file
    last,      \* the last call: its operation, arguments and how it ended
    callers,   \* concurrent callers of the read-then-write sequence
    clock,     \* the wall clock of the runs in which it only moves forward
    tampered,  \* the path <<trip, name>> of the stored file that was altered, or <<>>
    loaded,    \* the snapshots returned by the last walk of a trip's chain
    request    \* the ExceptionRequest

vars == <<plan, files, last, callers, clock, tampered, loaded, request>>

---------------------------------------------------------------------------
(* Values *)

\* Python None for optional strings and options.
None == "None"

\* previous_hash = None (a hash is a non-empty tuple).
NoHash == <<>>

\* TripStatus (models.py:16-23).
TripStatus == {"draft", "submitted", "approved", "rejected", "completed"}

\* The status a plan is constructed with: the default, and the one status
\* that no decision leads to.
InitialStatuses == {"draft", "completed"}

\* ApprovalOutcome (models.py:108-114).
ApprovalOutcome == {"approved", "rejected", "flagged", "overridden"}

\* Justification texts a caller may pass: missing, empty, text.
Justifications == {None, "", "ok"}

\* Python truthiness of an optional string: None and "" are falsy.
Truthy(s) == s # None /\ s # ""

\* The trip of the plan under decision and another trip sharing the store.
TripIds == {"T1", "T2"}

\* Wall-clock instants <<second, microsecond>> that datetime.now(UTC) may
\* return; the wall clock is not monotonic.
Timestamps == {<<0, 0>>, <<0, 5>>, <<1, 0>>}

\* The instants at which the decisions of the plan are snapshotted.
DecisionClock == {<<0, 0>>, <<0, 5>>}

\* timestamp=None.
NoTimestamp == <<>>

\* Decision times a caller passes as `timestamp`.
DecisionTimes == {NoTimestamp}

\* What datetime.now(UTC) returns when no `timestamp` is passed.
DecisionNow == <<0, 0>>

\* The size ceiling of a serialized snapshot, in bytes (snapshots.py:174).
MaxSnapshotBytes == 10240

\* Lengths in bytes of the serialized snapshot payloads that are tried.
PayloadSizes == {MaxSnapshotBytes, MaxSnapshotBytes + 1}

\* Bound on the number of events recorded in one approval history.
MaxHistory == 2

\* Bound on the number of snapshot files in the store.
MaxFiles == 3

---------------------------------------------------------------------------
(* Hashing: sha256 is treated as injective, a digest is the tagged input. *)

\* _hash_payload: digest of the canonical JSON of the payload.
hash_payload(payload) == <<"sha256", payload>>

\* sha256(f"{previous_hash or ''}{content_hash}"): both parts have a fixed
\* width, so the concatenation determines the pair.
chain_digest(previous_hash, content_hash) == <<"sha256", <<previous_hash, content_hash>>>>

\* ValidationSnapshot._set_hashes: content hash over every field but the two
\* hashes, chain hash over the previous link and the content hash.
set_hashes(s) ==
    LET payload == <<s.trip_id, s.timestamp, s.policy_version,
                     s.input_data, s.results, s.previous_hash>>
        content_hash == hash_payload(payload)
    IN  [trip_id |-> s.trip_id, timestamp |-> s.timestamp,
         policy_version |-> s.policy_version, input_data |-> s.input_data,
         results |-> s.results, previous_hash |-> s.previous_hash,
         bytes |-> s.bytes,
         snapshot_hash |-> content_hash,
         chain_hash |-> chain_digest(s.previous_hash, content_hash)]

---------------------------------------------------------------------------
(* File names *)

\* datetime.isoformat() of a UTC instant, as character codes: the seconds
\* digit, ".u" only when the microsecond is not 0, then the offset "+00:00".
isoformat(ts) ==
    <<48 + ts[1]>> \o (IF ts[2] = 0 THEN <<>> ELSE <<46, 48 + ts[2]>>)
                   \o <<43, 48, 48, 58, 48, 48>>

\* str.replace(':', '-') on character codes.
replace_colon(str) == [i \in 1..Len(str) |-> IF str[i] = 58 THEN 45 ELSE str[i]]

\* f"{snapshot.timestamp.isoformat().replace(':', '-')}.json"
filename(ts) == replace_colon(isoformat(ts)) \o <<46, 106, 115, 111, 110>>

\* Lexicographic order of two strings (Path comparison in sorted()).
RECURSIVE str_less(_, _)
str_less(a, b) ==
    IF b = <<>> THEN FALSE
    ELSE IF a = <<>> THEN TRUE
    ELSE IF Head(a) # Head(b) THEN Head(a) < Head(b)
    ELSE str_less(Tail(a), Tail(b))

\* sorted(paths): the files in increasing order of their names.
RECURSIVE sorted(_)
sorted(S) ==
    IF S = {} THEN <<>>
    ELSE LET m == CHOOSE f \in S : \A g \in S \ {f} : str_less(f.name, g.name)
         IN  <<m>> \o sorted(S \ {m})

---------------------------------------------------------------------------
(* ValidationSnapshotStore (snapshots.py:137-180) *)

\* The *.json files of the directory of one trip.
trip_files(trip) == {f \in files : f.trip = trip}

\* A load that trusts the two hashes stored in the file.
load_snapshot_stored(f) == f.data

\* load_snapshot: model_validate of the stored fields; the validator
\* _set_hashes runs again and recomputes both hashes from the fields read.
load_snapshot(f) == set_hashes(f.data)

\* load_trip_snapshots: the snapshots of the trip in sorted file-name order.
load_trip_snapshots(trip) ==
    LET paths == sorted(trip_files(trip))
    IN  [i \in 1..Len(paths) |-> load_snapshot(paths[i])]

\* last_chain_hash: the chain hash of the last loaded snapshot, or None.
last_chain_hash(trip) ==
    LET snapshots == load_trip_snapshots(trip)
    IN  IF snapshots = <<>> THEN NoHash ELSE snapshots[Len(snapshots)].chain_hash

\* The size check of append: the payload is longer than 10240 bytes.
exceeds_size(bytes) == bytes > MaxSnapshotBytes

\* open(target, "x"): exclusive create fails when the path exists.
path_exists(trip, name) == \E f \in files : f.trip = trip /\ f.name = name

\* The ValueError of append (snapshots.py:175).
SizeError == "ValueError: Snapshot exceeds 10KB"

\* append without exclusive create: an existing target is written again.
append_error_overwrite(snapshot) ==
    IF snapshot.bytes > MaxSnapshotBytes THEN SizeError ELSE ""

\* The error append raises: over the size ceiling, target exists, or "" when
\* the file is written.
append_error(snapshot) ==
    IF exceeds_size(snapshot.bytes) THEN SizeError
    ELSE IF path_exists(snapshot.trip_id, filename(snapshot.timestamp)) THEN "FileExistsError"
    ELSE ""

\* An append that writes the file first and checks the size afterwards.
append_files_write_first(snapshot) ==
    IF path_exists(snapshot.trip_id, filename(snapshot.timestamp)) THEN files
    ELSE files \cup {[trip |-> snapshot.trip_id,
                      name |-> filename(snapshot.timestamp),
                      data |-> snapshot,
                      created |-> Cardinality(files)]}

\* The directory tree after append(snapshot).
append_files(snapshot) ==
    IF append_error(snapshot) # "" THEN files
    ELSE files \cup {[trip |-> snapshot.trip_id,
                      name |-> filename(snapshot.timestamp),
                      data |-> snapshot,
                      created |-> Cardinality(files)]}

---------------------------------------------------------------------------
(* TripPlan (models.py:339-456) and ApprovalEvent (models.py:117-141) *)

\* plan.model_dump(mode="json"): the fields of the plan that the model keeps.
model_dump(p) ==
    [trip_id |-> p.trip_id, status |-> p.status,
     approval_history |-> p.approval_history,
     validation_results |-> p.validation_results]

\* PolicyValidator.validate_plan: the results of the configured rules.
validate_plan(p) == <<"DUR-001">>

\* policy_version_hash(validator): digest of the validator's rules.
policy_version_hash == hash_payload(<<"rules">>)

\* snapshot_from_plan: a snapshot of the plan stamped with the current time.
snapshot_from_plan(p, results, policy_version, previous_hash, now, bytes) ==
    set_hashes([trip_id |-> p.trip_id, timestamp |-> now,
                policy_version |-> policy_version,
                input_data |-> model_dump(p), results |-> results,
                previous_hash |-> previous_hash, bytes |-> bytes])

\* The check of the constructor looking only for a missing justification.
event_invalid_missing_only(outcome, justification) ==
    outcome = "overridden" /\ justification = None

\* ApprovalEvent.model_post_init: an override needs a justification.
event_invalid(outcome, justification) ==
    outcome = "overridden" /\ ~Truthy(justification)

\* The ValueError of an override without justification (models.py:140, 411).
OverrideError == "ValueError: Override decisions require justification text"

\* The guard of record_approval_decision (models.py:410).
decision_rejected(outcome, justification) ==
    outcome = "overridden" /\ ~Truthy(justification)

\* The mapping with a flagged decision leaving the status as it is.
new_status_keeps_flagged(outcome, status) ==
    IF outcome \in {"approved", "overridden"} THEN "approved"
    ELSE IF outcome = "rejected" THEN "rejected"
    ELSE status

\* The mapping with a flagged decision sending the plan back to draft.
new_status_reopens(outcome, status) ==
    IF outcome \in {"approved", "overridden"} THEN "approved"
    ELSE IF outcome = "rejected" THEN "rejected"
    ELSE "draft"

\* The status mapping of record_approval_decision (models.py:414-420).
new_status_for(outcome, status) ==
    IF outcome \in {"approved", "overridden"} THEN "approved"
    ELSE IF outcome = "rejected" THEN "rejected"
    ELSE IF outcome = "flagged" THEN "submitted"
    ELSE status

\* The plan after the event is appended and the status set (models.py:422-433).
plan_decided(p, outcome, justification, decision_time) ==
    LET new_status == new_status_for(outcome, p.status)
        event == [approver_id |-> "mgr-123", level |-> "manager",
                  outcome |-> outcome, timestamp |-> decision_time,
                  justification |-> justification,
                  previous_status |-> p.status, new_status |-> new_status]
    IN  [p EXCEPT !.approval_history = Append(@, event), !.status = new_status]

\* The decision with the event appended before the justification is checked.
decide_check_late(p, outcome, justification, timestamp) ==
    LET decision_time == IF timestamp # NoTimestamp THEN timestamp ELSE DecisionNow
    IN  [plan |-> plan_decided(p, outcome, justification, decision_time),
         error |-> IF outcome = "overridden" /\ ~Truthy(justification)
                   THEN OverrideError ELSE ""]

\* record_approval_decision up to the status update (models.py:409-433):
\* the plan it leaves and the error it raises ("" for none). The guard and
\* the constructor of the event both come before the first assignment.
decide(p, outcome, justification, timestamp) ==
    LET decision_time == IF timestamp # NoTimestamp THEN timestamp ELSE DecisionNow
    IN  IF decision_rejected(outcome, justification)
        THEN [plan |-> p, error |-> OverrideError]
        ELSE IF event_invalid(outcome, justification)
        THEN [plan |-> p, error |-> OverrideError]
        ELSE [plan |-> plan_decided(p, outcome, justification, decision_time),
              error |-> ""]

\* The record of a call: the operation, how it ended, and the file it named.
call(op, error, trip, name) ==
    [op |-> op, ok |-> (error = ""), error |-> error, trip |-> trip, name |-> name]

\* The variables that the plan and the sequential store calls leave alone.
others == <<callers, clock, tampered, loaded, request>>

\* record_approval_decision without snapshot_store (models.py:409-433, 448).
RecordDecision ==
    \E outcome \in ApprovalOutcome, justification \in Justifications,
       timestamp \in DecisionTimes :
        LET decided == decide(plan, outcome, justification, timestamp)
        IN  /\ decided.error = "" => Len(plan.approval_history) < MaxHistory
            /\ plan' = decided.plan
            /\ last' = call("record", decided.error, None, <<>>)
            /\ UNCHANGED <<files, others>>

\* record_approval_decision with a snapshot_store (models.py:409-448).
RecordDecisionWithStore ==
    \E outcome \in ApprovalOutcome, justification \in Justifications,
       timestamp \in DecisionTimes, now \in DecisionClock, bytes \in PayloadSizes :
        LET decided == decide(plan, outcome, justification, timestamp)
            results == IF decided.plan.validation_results # <<>>
                       THEN decided.plan.validation_results
                       ELSE validate_plan(decided.plan)
            validated == [decided.plan EXCEPT !.validation_results = results]
            previous_hash == last_chain_hash(plan.trip_id)
            snapshot == snapshot_from_plan(validated, results, policy_version_hash,
                                           previous_hash, now, bytes)
        IN  IF decided.error # ""
            THEN /\ plan' = decided.plan
                 /\ last' = call("record_store", decided.error, None, <<>>)
                 /\ UNCHANGED <<files, others>>
            ELSE /\ Len(plan.approval_history) < MaxHistory
                 /\ plan' = validated
                 /\ files' = append_files(snapshot)
                 /\ last' = call("record_store", append_error(snapshot),
                                 plan.trip_id, filename(now))
                 /\ UNCHANGED others

\* The record of a call of append: as call, with the length in bytes of the
\* payload that was handed in.
append_call(error, trip, name, bytes) ==
    [op |-> "append", ok |-> (error = ""), error |-> error, trip |-> trip,
     name |-> name, bytes |-> bytes]

\* A plan of another trip that shares the store.
other_plan(trip) ==
    [trip_id |-> trip, status |-> "draft", approval_history |-> <<>>,
     validation_results |-> validate_plan(trip)]

\* snapshot_from_plan seeded with last_chain_hash, then append
\* (tests/python/test_snapshots.py:48-55, 65-71).
CaptureSnapshot ==
    \E trip \in TripIds, now \in Timestamps, bytes \in PayloadSizes :
        LET p == IF trip = plan.trip_id THEN plan ELSE other_plan(trip)
            results == IF p.validation_results # <<>>
                       THEN p.validation_results ELSE validate_plan(p)
            snapshot == snapshot_from_plan(p, results, policy_version_hash,
                                           last_chain_hash(trip), now, bytes)
            error == append_error(snapshot)
        IN  /\ error = "" => Cardinality(files) < MaxFiles
            /\ files' = append_files(snapshot)
            /\ last' = append_call(error, trip, filename(now), bytes)
            /\ UNCHANGED <<plan, others>>

---------------------------------------------------------------------------
(* The sequential specification: one plan, one store, one caller. *)

Init ==
    /\ plan \in [trip_id : {"T1"}, status : InitialStatuses,
                 approval_history : {<<>>}, validation_results : {<<>>}]
    /\ files = {}
    /\ last = call("init", "", None, <<>>)
    /\ callers = <<>>
    /\ clock = 0
    /\ tampered = <<>>
    /\ loaded = <<>>
    /\ request = None

Next ==
    \/ RecordDecision
    \/ RecordDecisionWithStore

Spec == Init /\ [][Next]_vars

---------------------------------------------------------------------------
(* The store alone: seeded captures for two trips at any wall-clock time. *)

NextStore ==
    \/ CaptureSnapshot

SpecStore == Init /\ [][NextStore]_vars

---------------------------------------------------------------------------
(* Concurrent callers of record_approval_decision with one plan and one store
   (models.py:422-447): each records its decision and reads last_chain_hash,
   then builds and appends its snapshot; nothing serializes the two steps.  The wall clock of this
   run only moves forward, every snapshot gets a later timestamp. *)

\* Bound on the number of concurrent callers.
NumCallers == 2

Callers == 1..NumCallers

\* The first half of record_approval_decision: the decision is recorded on
\* the plan, then previous_hash = snapshot_store.last_chain_hash(self.trip_id)
ReadLastHash(c) ==
    \E outcome \in ApprovalOutcome :
        /\ callers[c].pc = "idle"
        /\ Cardinality(files) + Cardinality({d \in Callers : callers[d].pc = "read"}) < MaxFiles
        /\ plan' = plan_decided(plan, outcome, "ok", DecisionNow)
        /\ callers' = [callers EXCEPT ![c] = [pc |-> "read",
                                              previous_hash |-> last_chain_hash(plan.trip_id)]]
        /\ last' = call("last_chain_hash", "", plan.trip_id, <<>>)
        /\ UNCHANGED <<files, clock, tampered, loaded, request>>

\* snapshot = snapshot_from_plan(..., previous_hash=previous_hash);
\* snapshot_store.append(snapshot)
AppendSeeded(c) ==
    LET now == <<clock, 0>>
        snapshot == snapshot_from_plan(plan, validate_plan(plan), policy_version_hash,
                                       callers[c].previous_hash, now, MaxSnapshotBytes)
    IN  /\ callers[c].pc = "read"
        /\ files' = append_files(snapshot)
        /\ clock' = clock + 1
        /\ callers' = [callers EXCEPT ![c] = [pc |-> "idle", previous_hash |-> NoHash]]
        /\ last' = call("append", append_error(snapshot), plan.trip_id, filename(now))
        /\ UNCHANGED <<plan, tampered, loaded, request>>

InitConc ==
    /\ plan \in [trip_id : {"T1"}, status : InitialStatuses,
                 approval_history : {<<>>}, validation_results : {<<>>}]
    /\ files = {}
    /\ last = call("init", "", None, <<>>)
    /\ callers = [c \in Callers |-> [pc |-> "idle", previous_hash |-> NoHash]]
    /\ clock = 0
    /\ tampered = <<>>
    /\ loaded = <<>>
    /\ request = None

NextConc ==
    \/ \E c \in Callers : ReadLastHash(c)
    \/ \E c \in Callers : AppendSeeded(c)

SpecConc == InitConc /\ [][NextConc]_vars

---------------------------------------------------------------------------
(* A stored chain, one alteration of a stored file, and the walk that
   re-reads the chain (snapshots.py:154-165). *)

\* A seeded capture at the next instant of a clock that only moves forward.
CaptureInOrder ==
    \E trip \in TripIds :
        LET now == <<clock, 0>>
            p == IF trip = plan.trip_id THEN plan ELSE other_plan(trip)
            snapshot == snapshot_from_plan(p, validate_plan(p), policy_version_hash,
                                           last_chain_hash(trip), now, MaxSnapshotBytes)
        IN  /\ Cardinality(files) < MaxFiles
            /\ files' = append_files(snapshot)
            /\ clock' = clock + 1
            /\ last' = call("append", append_error(snapshot), trip, filename(now))
            /\ UNCHANGED <<plan, callers, tampered, loaded, request>>

\* The hashed fields of a stored snapshot and values to write over them.
Forgeries ==
    [field : {"previous_hash"}, value : {NoHash, hash_payload(<<"forged">>)}]
    \cup [field : {"policy_version"}, value : {hash_payload(<<"other rules">>)}]
    \cup [field : {"results"}, value : {<<"FORGED">>}]
    \cup [field : {"input_data"}, value : {model_dump(other_plan("T9"))}]
    \cup [field : {"timestamp"}, value : Timestamps \cup {<<9, 0>>}]
    \cup [field : {"trip_id"}, value : TripIds]

\* The stored fields with one of them overwritten.
forge(data, g) ==
    CASE g.field = "previous_hash" -> [data EXCEPT !.previous_hash = g.value]
      [] g.field = "policy_version" -> [data EXCEPT !.policy_version = g.value]
      [] g.field = "results" -> [data EXCEPT !.results = g.value]
      [] g.field = "input_data" -> [data EXCEPT !.input_data = g.value]
      [] g.field = "timestamp" -> [data EXCEPT !.timestamp = g.value]
      [] g.field = "trip_id" -> [data EXCEPT !.trip_id = g.value]

\* Somebody edits one hashed field of a stored snapshot that is not the last
\* of its trip, and may rewrite the two hashes stored beside it.
Tamper ==
    \E f \in files, g \in Forgeries, rehash \in BOOLEAN :
        LET paths == sorted(trip_files(f.trip))
            forged == forge(f.data, g)
        IN  /\ tampered = <<>>
            /\ f # paths[Len(paths)]
            /\ forged # f.data
            /\ files' = (files \ {f}) \cup
                        {[f EXCEPT !.data = IF rehash THEN set_hashes(forged) ELSE forged]}
            /\ tampered' = <<f.trip, f.name>>
            /\ last' = call("tamper", "", f.trip, f.name)
            /\ UNCHANGED <<plan, callers, clock, loaded, request>>

\* load_trip_snapshots(trip_id): the walk over the chain of one trip.
LoadTrip ==
    \E trip \in TripIds :
        /\ loaded' = load_trip_snapshots(trip)
        /\ last' = call("load", "", trip, <<>>)
        /\ UNCHANGED <<plan, files, callers, clock, tampered, request>>

NextTamper ==
    \/ CaptureInOrder
    \/ Tamper
    \/ LoadTrip

SpecTamper == Init /\ [][NextTamper]_vars

---------------------------------------------------------------------------
(* ApprovalEvent construction (models.py:117-141) *)

\* The arguments a caller passes to ApprovalEvent(...).
EventArgs ==
    [outcome : ApprovalOutcome, justification : Justifications \cup {" "},
     previous_status : TripStatus, new_status : TripStatus]

\* ApprovalEvent(**args): model_post_init raises or the event is built.
ConstructEvent ==
    \E args \in EventArgs :
        /\ last' = [op |-> "event",
                    ok |-> ~event_invalid(args.outcome, args.justification),
                    error |-> IF event_invalid(args.outcome, args.justification)
                              THEN OverrideError ELSE "",
                    event |-> args]
        /\ UNCHANGED <<plan, files, callers, clock, tampered, loaded, request>>

InitEvent ==
    /\ plan \in [trip_id : {"T1"}, status : {"draft"},
                 approval_history : {<<>>}, validation_results : {<<>>}]
    /\ files = {}
    /\ last = [op |-> "init", ok |-> TRUE, error |-> "",
               event |-> [outcome |-> "approved", justification |-> None,
                          previous_status |-> "draft", new_status |-> "approved"]]
    /\ callers = <<>>
    /\ clock = 0
    /\ tampered = <<>>
    /\ loaded = <<>>
    /\ request = None

NextEvent ==
    \/ ConstructEvent

SpecEvent == InitEvent /\ [][NextEvent]_vars

---------------------------------------------------------------------------
(* ExceptionRequest (models.py:164-314). Instants are whole hours. *)

ExceptionType ==
    {"advance_booking", "driving_vs_flying", "hotel_comparison", "local_overnight",
     "meal_per_diem"}

\* list(ExceptionApprovalLevel), in the order of the enum.
ExceptionApprovalLevel == <<"manager", "director", "board">>

Levels == {ExceptionApprovalLevel[i] : i \in 1..Len(ExceptionApprovalLevel)}

ExceptionStatus == {"pending", "approved", "rejected", "escalated"}

\* list(ExceptionApprovalLevel).index(level)
approval_rank(level) ==
    CHOOSE i \in 0..(Len(ExceptionApprovalLevel) - 1) : ExceptionApprovalLevel[i + 1] = level

\* A next level that starts over at the lowest level after the highest.
next_level_wraps(level) ==
    ExceptionApprovalLevel[((approval_rank(level) + 1) % Len(ExceptionApprovalLevel)) + 1]

\* _next_level(level): the level above, the highest level staying as it is.
next_level(level) ==
    LET index == approval_rank(level)
        top == Len(ExceptionApprovalLevel) - 1
    IN  ExceptionApprovalLevel[(IF index + 1 < top THEN index + 1 ELSE top) + 1]

\* max(a, b, key=_approval_rank): the first argument wins a tie.
max_level(a, b) == IF approval_rank(b) > approval_rank(a) THEN b ELSE a

BASE_EXCEPTION_LEVELS(exception_type) ==
    IF exception_type = "local_overnight" THEN "director" ELSE "manager"

DIRECTOR_THRESHOLD == 5000
BOARD_THRESHOLD == 20000

\* _ESCALATION_WINDOW, in hours.
ESCALATION_WINDOW == 48

\* An amount that was not given (amount=None).
NoAmount == -1

\* An instant that was not given (escalated_at=None, reference_time=None).
NoTime == -1

Amounts == {NoAmount, DIRECTOR_THRESHOLD, BOARD_THRESHOLD}

\* The routing with strict comparisons against the thresholds.
determine_above_threshold(exception_type, amount) ==
    LET level == BASE_EXCEPTION_LEVELS(exception_type)
    IN  IF amount # NoAmount
        THEN IF amount > BOARD_THRESHOLD THEN max_level(level, "board")
             ELSE IF amount > DIRECTOR_THRESHOLD THEN max_level(level, "director")
             ELSE level
        ELSE level

determine_exception_approval_level(exception_type, amount) ==
    LET level == BASE_EXCEPTION_LEVELS(exception_type)
    IN  IF amount # NoAmount
        THEN IF amount >= BOARD_THRESHOLD THEN max_level(level, "board")
             ELSE IF amount >= DIRECTOR_THRESHOLD THEN max_level(level, "director")
             ELSE level
        ELSE level

\* ExceptionRequest(type=..., amount=..., approval_level=..., status=...)
\* submitted at hour 0: model_post_init fills the approval level in when the
\* caller gave none.
new_request(exception_type, amount, approval_level, status) ==
    [type |-> exception_type, amount |-> amount,
     approval_level |-> IF approval_level = None
                        THEN determine_exception_approval_level(exception_type, amount)
                        ELSE approval_level,
     status |-> status, approval |-> <<>>, requested_at |-> 0, escalated_at |-> NoTime]

\* The instants at which the request is looked at.
ReferenceTimes == {0, 47, 48, 49, 96, 97}

\* The wall clock when no reference time is passed.
ExceptionNow == 49

\* The escalation measuring the age from requested_at whether or not the
\* request was escalated before.
escalate_from_request(r, reference_time) ==
    LET now == IF reference_time # NoTime THEN reference_time ELSE ExceptionNow
    IN  IF r.status \notin {"pending", "escalated"}
        THEN [request |-> r, ret |-> FALSE]
        ELSE IF now - r.requested_at < ESCALATION_WINDOW
        THEN [request |-> r, ret |-> FALSE]
        ELSE [request |-> [r EXCEPT !.status = "escalated", !.escalated_at = now,
                                    !.approval_level = next_level(r.approval_level)],
              ret |-> TRUE]

\* The request after escalate_if_overdue and the value the call returns.
escalate(r, reference_time) ==
    LET now == IF reference_time # NoTime THEN reference_time ELSE ExceptionNow
        anchor == IF r.escalated_at # NoTime THEN r.escalated_at ELSE r.requested_at
    IN  IF r.status \notin {"pending", "escalated"}
        THEN [request |-> r, ret |-> FALSE]
        ELSE IF now - anchor < ESCALATION_WINDOW
        THEN [request |-> r, ret |-> FALSE]
        ELSE [request |-> [r EXCEPT !.status = "escalated", !.escalated_at = now,
                                    !.approval_level = next_level(r.approval_level)],
              ret |-> TRUE]

\* What a call on the request left behind: the operation, the instant it
\* was given and the value it returned.
exc_call(op, at, ret) == [op |-> op, at |-> at, ret |-> ret]

EscalateIfOverdue ==
    \E reference_time \in ReferenceTimes \cup {NoTime} :
        LET done == escalate(request, reference_time)
        IN  /\ request' = done.request
            /\ last' = exc_call("escalate",
                                IF reference_time # NoTime THEN reference_time
                                ELSE ExceptionNow, done.ret)
            /\ UNCHANGED <<plan, files, callers, clock, tampered, loaded>>

\* approve(approver_id=..., level=..., timestamp=...)
Approve ==
    \E level \in Levels \cup {None}, timestamp \in {ExceptionNow} :
        LET approval_level == IF level # None THEN level ELSE request.approval_level
        IN  /\ request' = [request EXCEPT
                              !.approval = <<"mgr-123", approval_level, timestamp>>,
                              !.status = "approved",
                              !.approval_level = approval_level]
            /\ last' = exc_call("approve", timestamp, TRUE)
            /\ UNCHANGED <<plan, files, callers, clock, tampered, loaded>>

\* reject()
Reject ==
    /\ request' = [request EXCEPT !.status = "rejected"]
    /\ last' = exc_call("reject", NoTime, TRUE)
    /\ UNCHANGED <<plan, files, callers, clock, tampered, loaded>>

InitExc ==
    /\ plan \in [trip_id : {"T1"}, status : {"draft"},
                 approval_history : {<<>>}, validation_results : {<<>>}]
    /\ files = {}
    /\ last = exc_call("init", NoTime, TRUE)
    /\ callers = <<>>
    /\ clock = 0
    /\ tampered = <<>>
    /\ loaded = <<>>
    /\ \E exception_type \in ExceptionType, amount \in Amounts :
           request = new_request(exception_type, amount, None, "pending")

NextExc ==
    \/ EscalateIfOverdue
    \/ Approve
    \/ Reject

SpecExc == InitExc /\ [][NextExc]_vars

---------------------------------------------------------------------------
(* Routing of exception requests (models.py:204-269) *)

\* Amounts around the two thresholds.
RouteAmounts == {NoAmount, 0, 4999, 5000, 5001, 19999, 20000, 20001, 25000}

\* What a routing call was given and what it returned, for two amounts of
\* one type.
route_call(op, exception_type, amount, level, other, other_level) ==
    [op |-> op, type |-> exception_type, amount |-> amount, level |-> level,
     other |-> other, other_level |-> other_level]

\* determine_exception_approval_level(type, amount), and again for a second
\* amount of the same type.
Route ==
    \E exception_type \in ExceptionType, amount \in RouteAmounts, other \in RouteAmounts :
        /\ last' = route_call("route", exception_type,
                              amount, determine_exception_approval_level(exception_type, amount),
                              other, determine_exception_approval_level(exception_type, other))
        /\ UNCHANGED <<plan, files, callers, clock, tampered, loaded, request>>

\* ExceptionRequest(type=..., amount=..., approval_level=..., status=...)
CreateRequest ==
    \E exception_type \in ExceptionType, amount \in RouteAmounts,
       approval_level \in Levels \cup {None}, status \in ExceptionStatus :
        /\ request' = new_request(exception_type, amount, approval_level, status)
        /\ last' = route_call("create", exception_type, amount, approval_level,
                              NoAmount, None)
        /\ UNCHANGED <<plan, files, callers, clock, tampered, loaded>>

InitRoute ==
    /\ plan \in [trip_id : {"T1"}, status : {"draft"},
                 approval_history : {<<>>}, validation_results : {<<>>}]
    /\ files = {}
    /\ last = route_call("init", "advance_booking", NoAmount, None, NoAmount, None)
    /\ callers = <<>>
    /\ clock = 0
    /\ tampered = <<>>
    /\ loaded = <<>>
    /\ request = new_request("advance_booking", NoAmount, None, "pending")

NextRoute ==
    \/ Route

SpecRoute == InitRoute /\ [][NextRoute]_vars

NextCreate ==
    \/ CreateRequest

SpecCreate == InitRoute /\ [][NextCreate]_vars

---------------------------------------------------------------------------
(* compare_results (snapshots.py:100-132, 197-226) *)

\* Bound on the length of a list of validation results.
MaxResults == 2

\* The (severity, message, blocking) part of a validation result.
Signatures ==
    {<<"error", "m1", TRUE>>, <<"warning", "m1", TRUE>>,
     <<"error", "m2", TRUE>>, <<"error", "m1", FALSE>>}

\* ValidationResult(code=..., severity=..., message=..., blocking=...)
validation_result(code, signature) ==
    [code |-> code, severity |-> signature[1], message |-> signature[2],
     blocking |-> signature[3]]

\* The results a validator can emit; one rule may emit several results with
\* its code and different messages.
ValidationResults ==
    {validation_result("A", signature) : signature \in Signatures}
    \cup {validation_result("B", signature) :
            signature \in {<<"error", "m1", TRUE>>, <<"warning", "m1", TRUE>>}}

ResultLists == UNION {[1..n -> ValidationResults] : n \in 0..MaxResults}

\* The elements of a list.
Range(seq) == {seq[i] : i \in 1..Len(seq)}

\* The keys of {result.code: result for result in results}, in the order a
\* dict keeps them: by first insertion.
RECURSIVE map_keys(_)
map_keys(results) ==
    IF results = <<>> THEN <<>>
    ELSE LET front == SubSeq(results, 1, Len(results) - 1)
             keys == map_keys(front)
             code == results[Len(results)].code
         IN  IF \E i \in 1..Len(keys) : keys[i] = code THEN keys ELSE Append(keys, code)

\* The value of {result.code: result for result in results} at a key: the
\* last result with that code.
map_get(results, code) ==
    LET at == {i \in 1..Len(results) : results[i].code = code}
    IN  IF at = {} THEN <<>>
        ELSE <<results[CHOOSE i \in at : \A j \in at : j <= i]>>

\* ValidationDelta: a missing side is <<>>, a present one <<result>>.
ValidationDelta(code, original, rechecked) ==
    [rule_code |-> code, original |-> original, rechecked |-> rechecked]

\* A delta that compares severity and message only.
delta_changed_ignores_blocking(delta) ==
    IF delta.original = <<>> \/ delta.rechecked = <<>> THEN TRUE
    ELSE <<delta.original[1].severity, delta.original[1].message>>
         # <<delta.rechecked[1].severity, delta.rechecked[1].message>>

\* ValidationDelta.changed()
delta_changed(delta) ==
    IF delta.original = <<>> \/ delta.rechecked = <<>> THEN TRUE
    ELSE LET signature == <<delta.original[1].severity, delta.original[1].message,
                            delta.original[1].blocking>>
             re_signature == <<delta.rechecked[1].severity, delta.rechecked[1].message,
                               delta.rechecked[1].blocking>>
         IN  signature # re_signature

\* The deltas of the first loop, one per key of original_map.
original_deltas(original, rechecked) ==
    LET keys == map_keys(original)
    IN  [i \in 1..Len(keys) |->
            ValidationDelta(keys[i], map_get(original, keys[i]), map_get(rechecked, keys[i]))]

\* The deltas of the second loop, one per key of rechecked_map that is not
\* among the keys the loop passes over.
rechecked_deltas(rechecked, skipped) ==
    LET keys == SelectSeq(map_keys(rechecked), LAMBDA code : code \notin skipped)
    IN  [i \in 1..Len(keys) |->
            ValidationDelta(keys[i], <<>>, map_get(rechecked, keys[i]))]

\* The comparison with the second loop passing over no key.
compare_results_no_skip(original, rechecked) ==
    LET deltas == original_deltas(original, rechecked)
    IN  [changed |-> SelectSeq(deltas, delta_changed)
                     \o rechecked_deltas(rechecked, {}),
         unchanged |-> SelectSeq(deltas, LAMBDA delta : ~delta_changed(delta))]

compare_results(original, rechecked) ==
    LET deltas == original_deltas(original, rechecked)
    IN  [changed |-> SelectSeq(deltas, delta_changed)
                     \o rechecked_deltas(rechecked,
                                         {result.code : result \in Range(original)}),
         unchanged |-> SelectSeq(deltas, LAMBDA delta : ~delta_changed(delta))]

\* The two lists handed to compare_results and what it returned.
compare_call(op, original, rechecked, comparison) ==
    [op |-> op, original |-> original, rechecked |-> rechecked,
     comparison |-> comparison]

CompareResults ==
    /\ last.op = "args"
    /\ last' = compare_call("compare", last.original, last.rechecked,
                            compare_results(last.original, last.rechecked))
    /\ UNCHANGED <<plan, files, callers, clock, tampered, loaded, request>>

InitCompare ==
    /\ plan \in [trip_id : {"T1"}, status : {"draft"},
                 approval_history : {<<>>}, validation_results : {<<>>}]
    /\ files = {}
    /\ \E original \in ResultLists, rechecked \in ResultLists :
           last = compare_call("args", original, rechecked,
                               [changed |-> <<>>, unchanged |-> <<>>])
    /\ callers = <<>>
    /\ clock = 0
    /\ tampered = <<>>
    /\ loaded = <<>>
    /\ request = None

NextCompare ==
    \/ CompareResults

SpecCompare == InitCompare /\ [][NextCompare]_vars

---------------------------------------------------------------------------
(* PolicyVersion (policy_versioning.py:24-85). A configuration is a JSON
   value: a dict keeps its items in insertion order, a list its elements in
   the order given. *)

json_atom(text) == [kind |-> "atom", items |-> <<>>, text |-> text]

\* A dict whose items are [key, value] records in insertion order.
json_dict(items) == [kind |-> "dict", items |-> items, text |-> ""]

json_list(items) == [kind |-> "list", items |-> items, text |-> ""]

\* The keys in use, in the order sort_keys=True puts them (by code point).
SortedKeys == <<"advance_booking", "fare_evidence", "rule_id", "rules", "severity">>

key_rank(key) == CHOOSE i \in 1..Len(SortedKeys) : SortedKeys[i] = key

\* The items of a dict ordered by key.
sort_items(items) ==
    LET n == Len(items)
        position(i) ==
            1 + Cardinality({j \in 1..n : key_rank(items[j].key) < key_rank(items[i].key)})
    IN  [k \in 1..n |-> items[CHOOSE i \in 1..n : position(i) = k]]

\* json.dumps(value, sort_keys=True, separators=(",", ":")): the text is
\* fixed by the value with the items of every dict ordered by key and the
\* elements of every list in their given order.
RECURSIVE json_dumps(_)
json_dumps(value) ==
    IF value.kind = "atom" THEN value
    ELSE IF value.kind = "list"
    THEN json_list([i \in 1..Len(value.items) |-> json_dumps(value.items[i])])
    ELSE json_dict(sort_items([i \in 1..Len(value.items) |->
                        [key |-> value.items[i].key,
                         value |-> json_dumps(value.items[i].value)]]))

\* _stable_hash(config)
stable_hash(config) == hash_payload(json_dumps(config))

\* A version label is the sequence of its parts between the dots, each part
\* a string; <<>> stands for None and for "".
NoVersion == <<>>

\* The parts int() accepts.
IntegerParts == {"0", "1", "2"}

\* int(part) for a part that int() accepts.
int_of(part) ==
    CASE part = "0" -> 0
      [] part = "1" -> 1
      [] part = "2" -> 2

\* The parts _parse_version converts: the first three.
parsed_parts(version) == {i \in 1..Len(version) : i <= 3}

\* _parse_version(version): (0, 1, 0) for no label and when int() raises
\* ValueError on one of the first three parts; a missing minor or patch is 0.
parse_version(version) ==
    IF version = NoVersion THEN <<0, 1, 0>>
    ELSE IF \E i \in parsed_parts(version) : version[i] \notin IntegerParts
         THEN <<0, 1, 0>>
         ELSE <<int_of(version[1]),
                IF Len(version) > 1 THEN int_of(version[2]) ELSE 0,
                IF Len(version) > 2 THEN int_of(version[3]) ELSE 0>>

\* The dataclass PolicyVersion(major, minor, patch, config_hash).
PolicyVersion(major, minor, patch, config_hash) ==
    [major |-> major, minor |-> minor, patch |-> patch, config_hash |-> config_hash]

\* PolicyVersion.from_config(version, rule_config)
from_config(version, rule_config) ==
    LET parsed == parse_version(version)
    IN  PolicyVersion(parsed[1], parsed[2], parsed[3], stable_hash(rule_config))

\* Bound on the number of rules in a configuration.
MaxRules == 2

RuleIds == {"advance_booking", "fare_evidence"}

RuleSeverities == {"advisory", "blocking"}

\* One rule as describe_rules() lists it: a dict with its id and severity,
\* the keys inserted in either order.
RuleEntries ==
    UNION {{json_dict(<<[key |-> "rule_id", value |-> json_atom(id)],
                        [key |-> "severity", value |-> json_atom(severity)]>>),
            json_dict(<<[key |-> "severity", value |-> json_atom(severity)],
                        [key |-> "rule_id", value |-> json_atom(id)]>>)} :
           id \in RuleIds, severity \in RuleSeverities}

\* {"rules": [entry, ...]}, the shape _policy_version hashes.
ListConfigs ==
    {json_dict(<<[key |-> "rules", value |-> json_list(entries)]>>) :
        entries \in UNION {[1..n -> RuleEntries] : n \in 0..MaxRules}}

\* The items of a mapping from rule id to the rule's parameters, in any
\* insertion order of distinct ids.
RuleItems ==
    {items \in UNION {[1..n -> [key : RuleIds,
                                value : {json_dict(<<[key |-> "severity",
                                                      value |-> json_atom(severity)]>>) :
                                           severity \in RuleSeverities}]] :
                       n \in 0..MaxRules} :
        \A i, j \in 1..Len(items) : i # j => items[i].key # items[j].key}

\* {"rules": {rule id: {parameters}}}, the shape of policy.yaml.
MappingConfigs ==
    {json_dict(<<[key |-> "rules", value |-> json_dict(items)]>>) : items \in RuleItems}

RuleConfigs == ListConfigs \cup MappingConfigs

\* Two configurations and the versions from_config made of them.
version_call(op, first, second, first_version, second_version) ==
    [op |-> op, first |-> first, second |-> second,
     first_version |-> first_version, second_version |-> second_version]

\* PolicyVersion.from_config(None, first) and from_config(None, second)
FromConfig ==
    /\ last.op = "args"
    /\ last' = version_call("from_config", last.first, last.second,
                            from_config(NoVersion, last.first),
                            from_config(NoVersion, last.second))
    /\ UNCHANGED <<plan, files, callers, clock, tampered, loaded, request>>

InitVersion ==
    /\ plan \in [trip_id : {"T1"}, status : {"draft"},
                 approval_history : {<<>>}, validation_results : {<<>>}]
    /\ files = {}
    /\ \E first \in RuleConfigs, second \in RuleConfigs :
           last = version_call("args", first, second,
                               PolicyVersion(0, 0, 0, NoHash), PolicyVersion(0, 0, 0, NoHash))
    /\ callers = <<>>
    /\ clock = 0
    /\ tampered = <<>>
    /\ loaded = <<>>
    /\ request = None

NextVersion ==
    \/ FromConfig

SpecVersion == InitVersion /\ [][NextVersion]_vars

---------------------------------------------------------------------------
(* PolicyVersion.change_type (policy_versioning.py:76-85) *)

\* The comparison looking at the version label before the hashes.
change_type_label_first(self, previous) ==
    IF self.major # previous.major THEN "breaking"
    ELSE IF self.minor # previous.minor THEN "feature"
    ELSE IF self.patch # previous.patch THEN "patch"
    ELSE IF self.config_hash = previous.config_hash THEN "no-op"
    ELSE "config-drift"

change_type(self, previous) ==
    IF self.config_hash = previous.config_hash THEN "no-op"
    ELSE IF self.major # previous.major THEN "breaking"
    ELSE IF self.minor # previous.minor THEN "feature"
    ELSE IF self.patch # previous.patch THEN "patch"
    ELSE "config-drift"

\* The versions that are compared: two values per component, two hashes.
PolicyVersions ==
    {PolicyVersion(major, minor, patch, config_hash) :
        major \in {1, 2}, minor \in {0, 1}, patch \in {0, 1},
        config_hash \in {hash_payload(<<"rules", 1>>), hash_payload(<<"rules", 2>>)}}

\* The two versions of a change_type call and what it returned.
change_call(op, self, previous, result) ==
    [op |-> op, self |-> self, previous |-> previous, result |-> result]

\* self.change_type(previous)
ChangeType ==
    /\ last.op = "args"
    /\ last' = change_call("change_type", last.self, last.previous,
                           change_type(last.self, last.previous))
    /\ UNCHANGED <<plan, files, callers, clock, tampered, loaded, request>>

InitChange ==
    /\ plan \in [trip_id : {"T1"}, status : {"draft"},
                 approval_history : {<<>>}, validation_results : {<<>>}]
    /\ files = {}
    /\ \E self \in PolicyVersions, previous \in PolicyVersions :
           last = change_call("args", self, previous, "")
    /\ callers = <<>>
    /\ clock = 0
    /\ tampered = <<>>
    /\ loaded = <<>>
    /\ request = None

NextChange ==
    \/ ChangeType

SpecChange == InitChange /\ [][NextChange]_vars

---------------------------------------------------------------------------
(* PolicyEngine and the built-in policy rules (policy.py:24-484). An optional
   field of the context is <<>> when absent and <<value>> when given. *)

Severity == {"blocking", "advisory", "info"}

\* PolicyResult(rule_id, severity, passed, message)
PolicyResult(rule_id, severity, passed, message) ==
    [rule_id |-> rule_id, severity |-> severity, passed |-> passed, message |-> message]

\* A result that keeps the configured severity when the rule passed.
result_keeps_severity(rule, passed, message) ==
    PolicyResult(rule.rule_id, rule.severity, passed, message)

\* PolicyRule._result(passed, message)
rule_result(rule, passed, message) ==
    PolicyResult(rule.rule_id, IF ~passed THEN rule.severity ELSE "info", passed, message)

\* bool(field) of an optional field holding a boolean.
truthy(field) == field # <<>> /\ field[1]

\* `field or []` of an optional field holding a list.
or_empty(field) == IF field = <<>> THEN <<>> ELSE field[1]

\* str.lower() on the cabin names in use.
lower(text) ==
    CASE text = "Business" -> "business"
      [] text = "Economy" -> "economy"
      [] OTHER -> text

\* rule.evaluate(context) of the ten built-in rules.
evaluate(rule, context) ==
    CASE rule.rule_id = "advance_booking" ->
            IF context.booking_date = <<>> \/ context.departure_date = <<>>
            THEN rule_result(rule, TRUE, "skipped")
            ELSE IF context.departure_date[1] - context.booking_date[1] < rule.days_required
            THEN rule_result(rule, FALSE, "violation")
            ELSE rule_result(rule, TRUE, "ok")
      [] rule.rule_id = "fare_comparison" ->
            IF context.selected_fare = <<>> \/ context.lowest_fare = <<>>
            THEN rule_result(rule, TRUE, "skipped")
            ELSE IF context.selected_fare[1] - context.lowest_fare[1] > rule.max_over_lowest
            THEN rule_result(rule, FALSE, "violation")
            ELSE rule_result(rule, TRUE, "ok")
      [] rule.rule_id = "cabin_class" ->
            IF context.cabin_class = <<>> \/ context.flight_duration_hours = <<>>
            THEN rule_result(rule, TRUE, "skipped")
            ELSE IF /\ context.flight_duration_hours[1] <= rule.long_haul_hours
                    /\ lower(context.cabin_class[1]) \notin rule.allowed_classes
            THEN rule_result(rule, FALSE, "violation")
            ELSE rule_result(rule, TRUE, "ok")
      [] rule.rule_id = "fare_evidence" ->
            IF truthy(context.fare_evidence_attached)
            THEN rule_result(rule, TRUE, "ok")
            ELSE rule_result(rule, FALSE, "violation")
      [] rule.rule_id = "driving_vs_flying" ->
            IF context.driving_cost = <<>> \/ context.flight_cost = <<>>
            THEN rule_result(rule, TRUE, "skipped")
            ELSE IF context.driving_cost[1] > context.flight_cost[1]
            THEN rule_result(rule, FALSE, "violation")
            ELSE rule_result(rule, TRUE, "ok")
      [] rule.rule_id = "hotel_comparison" ->
            IF Len(or_empty(context.comparable_hotels)) < rule.minimum_alternatives
            THEN rule_result(rule, FALSE, "violation")
            ELSE rule_result(rule, TRUE, "ok")
      [] rule.rule_id = "local_overnight" ->
            IF ~truthy(context.overnight_stay)
            THEN rule_result(rule, TRUE, "no overnight stay")
            ELSE IF context.distance_from_office_miles = <<>>
            THEN rule_result(rule, TRUE, "skipped")
            ELSE IF context.distance_from_office_miles[1] < rule.min_distance_miles
            THEN rule_result(rule, FALSE, "violation")
            ELSE rule_result(rule, TRUE, "ok")
      [] rule.rule_id = "meal_per_diem" ->
            IF truthy(context.meals_provided) /\ truthy(context.meal_per_diem_requested)
            THEN rule_result(rule, FALSE, "violation")
            ELSE rule_result(rule, TRUE, "ok")
      [] rule.rule_id = "non_reimbursable" ->
            IF \E i \in 1..Len(or_empty(context.expenses)) :
                   or_empty(context.expenses)[i] \in rule.blocked_keywords
            THEN rule_result(rule, FALSE, "violation")
            ELSE rule_result(rule, TRUE, "ok")
      [] rule.rule_id = "third_party_paid" ->
            IF \E i \in 1..Len(or_empty(context.third_party_payments)) :
                   ~or_empty(context.third_party_payments)[i]
            THEN rule_result(rule, FALSE, "violation")
            ELSE rule_result(rule, TRUE, "ok")

\* The rule keys of policy.yaml in the order from_yaml registers the rules.
RuleKeys ==
    <<"advance_booking", "fare_comparison", "cabin_class", "fare_evidence",
      "driving_vs_flying", "hotel_comparison", "local_overnight", "meal_per_diem",
      "non_reimbursable", "third_party_paid">>

\* The severity from_yaml gives a rule whose configuration names none.
default_severity(key) ==
    IF key \in {"fare_comparison", "cabin_class", "fare_evidence", "non_reimbursable",
                "third_party_paid"}
    THEN "blocking" ELSE "advisory"

\* A rule object with from_yaml's default parameters.
policy_rule(rule_id, severity) ==
    [rule_id |-> rule_id, severity |-> severity,
     days_required |-> 14, max_over_lowest |-> 200, long_haul_hours |-> 5,
     allowed_classes |-> {"economy"}, minimum_alternatives |-> 2,
     min_distance_miles |-> 50, blocked_keywords |-> {"liquor", "alcohol", "personal"}]

\* A rule key that no built-in rule answers to.
UnknownRuleKey == "carbon_offset"

\* The keys a configuration may name under "rules".
ConfigKeys == {RuleKeys[i] : i \in 1..Len(RuleKeys)} \cup {UnknownRuleKey}

\* The mapping a configuration gives for one rule key: each setting is
\* <<>> when left out and <<value>> when given.
no_rule_cfg ==
    [severity |-> <<>>, days_required |-> <<>>, max_over_lowest |-> <<>>,
     long_haul_hours |-> <<>>, allowed_classes |-> <<>>, minimum_alternatives |-> <<>>,
     min_distance_miles |-> <<>>, blocked_keywords |-> <<>>]

\* The parameters from_yaml hands to the constructor of each rule, besides
\* the severity.
rule_parameters(key) ==
    CASE key = "advance_booking" -> {"days_required"}
      [] key = "fare_comparison" -> {"max_over_lowest"}
      [] key = "cabin_class" -> {"long_haul_hours", "allowed_classes"}
      [] key = "hotel_comparison" -> {"minimum_alternatives"}
      [] key = "local_overnight" -> {"min_distance_miles"}
      [] key = "non_reimbursable" -> {"blocked_keywords"}
      [] OTHER -> {}

\* _load_rule_config(config, key, default), then the constructor call: the
\* settings the configuration gives for the key laid over the defaults. A
\* key that is not named, or named with nothing under it, gives the defaults.
load_rule_config(config, key, default) ==
    LET rule_cfg == IF config[key] # <<>> THEN config[key][1] ELSE no_rule_cfg
    IN  [name \in DOMAIN default |->
            IF name \in rule_parameters(key) \cup {"severity"} /\ rule_cfg[name] # <<>>
            THEN rule_cfg[name][1]
            ELSE default[name]]

\* PolicyEngine.from_yaml(content).rules: the ten rules in their fixed
\* order; keys of the configuration that no rule answers to are never read.
from_yaml(config) ==
    [i \in 1..Len(RuleKeys) |->
        load_rule_config(config, RuleKeys[i],
                         policy_rule(RuleKeys[i], default_severity(RuleKeys[i])))]

\* The configurations: nothing configured, or one severity for every rule.
YamlConfigs ==
    {[key \in ConfigKeys |-> <<>>]}
    \cup {[key \in ConfigKeys |->
              IF key = UnknownRuleKey THEN <<>>
              ELSE <<[no_rule_cfg EXCEPT !.severity = <<severity>>]>>] :
          severity \in Severity}

\* What a caller knows about each subject of a rule: nothing, or values that
\* take the rule down each of its other branches.
DateInputs ==
    {[booking_date |-> <<>>, departure_date |-> <<>>],
     [booking_date |-> <<0>>, departure_date |-> <<5>>],
     [booking_date |-> <<0>>, departure_date |-> <<20>>]}

FareInputs ==
    {[selected_fare |-> <<>>, lowest_fare |-> <<>>],
     [selected_fare |-> <<600>>, lowest_fare |-> <<400>>],
     [selected_fare |-> <<450>>, lowest_fare |-> <<400>>]}

CabinInputs ==
    {[cabin_class |-> <<>>, flight_duration_hours |-> <<>>],
     [cabin_class |-> <<"Business">>, flight_duration_hours |-> <<2>>],
     [cabin_class |-> <<"Economy">>, flight_duration_hours |-> <<2>>]}

DrivingInputs ==
    {[driving_cost |-> <<>>, flight_cost |-> <<>>],
     [driving_cost |-> <<500>>, flight_cost |-> <<300>>],
     [driving_cost |-> <<200>>, flight_cost |-> <<300>>]}

OvernightInputs ==
    {[overnight_stay |-> <<>>, distance_from_office_miles |-> <<>>],
     [overnight_stay |-> <<TRUE>>, distance_from_office_miles |-> <<>>],
     [overnight_stay |-> <<TRUE>>, distance_from_office_miles |-> <<10>>],
     [overnight_stay |-> <<TRUE>>, distance_from_office_miles |-> <<60>>]}

MealInputs ==
    {[meals_provided |-> <<>>, meal_per_diem_requested |-> <<>>],
     [meals_provided |-> <<TRUE>>, meal_per_diem_requested |-> <<TRUE>>]}

\* PolicyContext(...)
PolicyContexts ==
    {[booking_date |-> d.booking_date, departure_date |-> d.departure_date,
      selected_fare |-> f.selected_fare, lowest_fare |-> f.lowest_fare,
      cabin_class |-> c.cabin_class, flight_duration_hours |-> c.flight_duration_hours,
      fare_evidence_attached |-> evidence,
      driving_cost |-> v.driving_cost, flight_cost |-> v.flight_cost,
      comparable_hotels |-> hotels,
      distance_from_office_miles |-> o.distance_from_office_miles,
      overnight_stay |-> o.overnight_stay,
      meals_provided |-> m.meals_provided,
      meal_per_diem_requested |-> m.meal_per_diem_requested,
      expenses |-> expenses, third_party_payments |-> payments] :
        d \in DateInputs, f \in FareInputs, c \in CabinInputs,
        evidence \in {<<>>, <<TRUE>>}, v \in DrivingInputs,
        hotels \in {<<>>, <<<<150, 160>>>>}, o \in OvernightInputs,
        m \in MealInputs, expenses \in {<<>>, <<<<"taxi", "liquor">>>>},
        payments \in {<<>>, <<<<TRUE, FALSE>>>>}}

\* A validation that leaves out the rules that skipped for lack of input.
validate_omits_skipped(rules, context) ==
    SelectSeq([i \in 1..Len(rules) |-> evaluate(rules[i], context)],
              LAMBDA r : r.message # "skipped")

\* PolicyEngine.validate(context)
validate(rules, context) == [i \in 1..Len(rules) |-> evaluate(rules[i], context)]

\* PolicyEngine.blocking_results(context)
blocking_results(rules, context) ==
    SelectSeq(validate(rules, context),
              LAMBDA r : r.severity = "blocking" /\ ~r.passed)

\* _RULE_REQUIRED_FIELDS: the context fields each rule needs.
RULE_REQUIRED_FIELDS(rule_id) ==
    CASE rule_id = "advance_booking" -> {"booking_date", "departure_date"}
      [] rule_id = "fare_comparison" -> {"selected_fare", "lowest_fare"}
      [] rule_id = "cabin_class" -> {"cabin_class", "flight_duration_hours"}
      [] rule_id = "fare_evidence" -> {"fare_evidence_attached"}
      [] rule_id = "driving_vs_flying" -> {"driving_cost", "flight_cost"}
      [] rule_id = "hotel_comparison" -> {"comparable_hotels"}
      [] rule_id = "local_overnight" -> {"overnight_stay", "distance_from_office_miles"}
      [] rule_id = "meal_per_diem" -> {"meals_provided", "meal_per_diem_requested"}
      [] rule_id = "non_reimbursable" -> {"expenses"}
      [] rule_id = "third_party_paid" -> {"third_party_payments"}

\* _missing_fields(context, fields): the fields that are None.
missing_fields(context, fields) == {field \in fields : context[field] = <<>>}

\* An engine, the context of a call on it and what the call returned.
engine_call(op, rules, context, results) ==
    [op |-> op, rules |-> rules, context |-> context, results |-> results]

Validate ==
    /\ last.op = "args"
    /\ last' = engine_call("validate", last.rules, last.context,
                           validate(last.rules, last.context))
    /\ UNCHANGED <<plan, files, callers, clock, tampered, loaded, request>>

BlockingResults ==
    /\ last.op = "args"
    /\ last' = engine_call("blocking_results", last.rules, last.context,
                           blocking_results(last.rules, last.context))
    /\ UNCHANGED <<plan, files, callers, clock, tampered, loaded, request>>

InitEngine ==
    /\ plan \in [trip_id : {"T1"}, status : {"draft"},
                 approval_history : {<<>>}, validation_results : {<<>>}]
    /\ files = {}
    /\ \E config \in YamlConfigs, context \in PolicyContexts :
           last = engine_call("args", from_yaml(config), context, <<>>)
    /\ callers = <<>>
    /\ clock = 0
    /\ tampered = <<>>
    /\ loaded = <<>>
    /\ request = None

NextEngine ==
    \/ Validate
    \/ BlockingResults

SpecEngine == InitEngine /\ [][NextEngine]_vars

---------------------------------------------------------------------------
(* Building the engine from a configuration (policy.py:356-466). *)

\* What a configuration may say under one rule key that takes a numeric
\* parameter: the key left out, the key with nothing under it, the key with
\* only a severity, and the key with the parameter and a severity.
rule_cfg_options(parameter, value) ==
    {<<>>,
     <<no_rule_cfg>>,
     <<[no_rule_cfg EXCEPT !.severity = <<"blocking">>]>>,
     <<[no_rule_cfg EXCEPT !.severity = <<"blocking">>, ![parameter] = <<value>>]>>}

\* The configurations handed to from_yaml.
LoadConfigs ==
    {[key \in ConfigKeys |->
        CASE key = "advance_booking" -> advance
          [] key = "fare_comparison" -> fare
          [] key = "hotel_comparison" -> hotel
          [] key = UnknownRuleKey -> unknown
          [] OTHER -> <<>>] :
     advance \in rule_cfg_options("days_required", 21),
     fare \in rule_cfg_options("max_over_lowest", 150),
     hotel \in rule_cfg_options("minimum_alternatives", 3),
     unknown \in {<<>>, <<[no_rule_cfg EXCEPT !.severity = <<"blocking">>]>>}}

load_call(op, config, rules, error) ==
    [op |-> op, config |-> config, rules |-> rules, error |-> error]

\* PolicyEngine.from_yaml(content): no step of it raises for what the
\* configuration names or leaves out, so the engine is always returned.
LoadEngine ==
    /\ last.op = "args"
    /\ last' = load_call("from_yaml", last.config, from_yaml(last.config), "")
    /\ UNCHANGED <<plan, files, callers, clock, tampered, loaded, request>>

InitLoad ==
    /\ \E config \in LoadConfigs : last = load_call("args", config, <<>>, "")
    /\ plan \in [trip_id : {"T1"}, status : {"draft"},
                 approval_history : {<<>>}, validation_results : {<<>>}]
    /\ files = {}
    /\ callers = <<>>
    /\ clock = 0
    /\ tampered = <<>>
    /\ loaded = <<>>
    /\ request = None

NextLoad ==
    \/ LoadEngine

SpecLoad == InitLoad /\ [][NextLoad]_vars

---------------------------------------------------------------------------
(* check_trip_plan (policy_api.py:268-390). The plan carries the inputs of
   the policy context; an amount in expected_costs is the text it was
   submitted as. *)

\* The keys _context_from_plan looks up in plan.expected_costs.
ExpectedCostKeys ==
    {"driving_cost", "ground_transport", "flight_cost", "airfare", "selected_fare",
     "flight_pref_outbound.roundtrip_cost", "lowest_fare", "lowest_cost_roundtrip"}

\* _format_currency_value(value) for a string: the amount it spells, None
\* for no value and for a text Decimal() does not accept.
format_currency_value(value) ==
    IF value = <<>> THEN <<>>
    ELSE CASE value[1] = "250.00" -> <<250>>
           [] value[1] = "350.00" -> <<350>>
           [] value[1] = "380.00" -> <<380>>
           [] OTHER -> <<>>

\* _expected_cost_value(plan, *keys): the first of the keys that is present
\* with an amount.
RECURSIVE expected_cost_value(_, _)
expected_cost_value(expected_costs, keys) ==
    IF keys = <<>> THEN <<>>
    ELSE IF format_currency_value(expected_costs[Head(keys)]) # <<>>
         THEN format_currency_value(expected_costs[Head(keys)])
         ELSE expected_cost_value(expected_costs, Tail(keys))

\* x if x is not None, else y
or_else(x, y) == IF x # <<>> THEN x ELSE y

\* _context_from_plan(plan)
context_from_plan(trip) ==
    LET driving_cost ==
            or_else(or_else(trip.driving_cost, trip.expense_breakdown.ground_transport),
                    expected_cost_value(trip.expected_costs,
                                        <<"driving_cost", "ground_transport">>))
        flight_cost ==
            or_else(or_else(trip.flight_cost, trip.expense_breakdown.airfare),
                    expected_cost_value(trip.expected_costs, <<"flight_cost", "airfare">>))
        selected_fare ==
            or_else(or_else(trip.selected_fare,
                            expected_cost_value(trip.expected_costs,
                                <<"selected_fare", "flight_pref_outbound.roundtrip_cost",
                                  "airfare">>)),
                    flight_cost)
        lowest_fare ==
            or_else(trip.lowest_fare,
                    expected_cost_value(trip.expected_costs,
                                        <<"lowest_fare", "lowest_cost_roundtrip">>))
    IN  [booking_date |-> trip.booking_date, departure_date |-> trip.departure_date,
         selected_fare |-> selected_fare, lowest_fare |-> lowest_fare,
         cabin_class |-> trip.cabin_class,
         flight_duration_hours |-> trip.flight_duration_hours,
         fare_evidence_attached |-> trip.fare_evidence_attached,
         driving_cost |-> driving_cost, flight_cost |-> flight_cost,
         comparable_hotels |-> trip.comparable_hotels,
         distance_from_office_miles |-> trip.distance_from_office_miles,
         overnight_stay |-> trip.overnight_stay,
         meals_provided |-> trip.meals_provided,
         meal_per_diem_requested |-> trip.meal_per_diem_requested,
         expenses |-> trip.expenses, third_party_payments |-> trip.third_party_payments]

\* _issue_severity(result)
issue_severity(result) ==
    IF result.severity = "blocking" THEN "error"
    ELSE IF result.severity = "advisory" THEN "warning"
    ELSE "info"

\* _issue_from_result(result)
issue_from_result(result) ==
    [code |-> result.rule_id, message |-> result.message,
     severity |-> issue_severity(result),
     context |-> [rule_id |-> result.rule_id, severity |-> result.severity]]

\* The issues of every result that did not pass.
issues_of(results) ==
    LET failed == SelectSeq(results, LAMBDA result : ~result.passed)
    IN  [i \in 1..Len(failed) |-> issue_from_result(failed[i])]

\* A check that fails the plan on any failed rule, whatever its severity.
check_trip_plan_any_failure(rules, trip) ==
    LET results == validate(rules, context_from_plan(trip))
    IN  [status |-> IF \E i \in 1..Len(results) : ~results[i].passed
                    THEN "fail" ELSE "pass",
         issues |-> issues_of(results)]

\* check_trip_plan(plan) with the engine PolicyEngine.from_file() gave: the
\* status and the issues of the returned PolicyCheckResult.
check_trip_plan(rules, trip) ==
    LET results == validate(rules, context_from_plan(trip))
        has_blocking ==
            \E i \in 1..Len(results) :
                ~results[i].passed /\ results[i].severity = "blocking"
    IN  [status |-> IF has_blocking THEN "fail" ELSE "pass",
         issues |-> issues_of(results)]

\* The expected costs a plan was submitted with: none, or amounts of which
\* one is not a number.
ExpectedCosts ==
    {[key \in ExpectedCostKeys |-> <<>>],
     [key \in ExpectedCostKeys |->
        CASE key = "ground_transport" -> <<"250.00">>
          [] key = "flight_cost" -> <<"n/a">>
          [] key = "airfare" -> <<"350.00">>
          [] key = "lowest_cost_roundtrip" -> <<"380.00">>
          [] OTHER -> <<>>]}

\* The planned spend by category.
ExpenseBreakdowns ==
    {[ground_transport |-> <<>>, airfare |-> <<>>],
     [ground_transport |-> <<400>>, airfare |-> <<300>>]}

\* The plans handed to check_trip_plan.
CheckPlans ==
    {[booking_date |-> d.booking_date, departure_date |-> d.departure_date,
      selected_fare |-> f.selected_fare, lowest_fare |-> f.lowest_fare,
      cabin_class |-> c.cabin_class, flight_duration_hours |-> c.flight_duration_hours,
      fare_evidence_attached |-> evidence,
      driving_cost |-> v.driving_cost, flight_cost |-> v.flight_cost,
      comparable_hotels |-> hotels,
      distance_from_office_miles |-> o.distance_from_office_miles,
      overnight_stay |-> o.overnight_stay,
      meals_provided |-> m.meals_provided,
      meal_per_diem_requested |-> m.meal_per_diem_requested,
      expenses |-> expenses, third_party_payments |-> payments,
      expense_breakdown |-> breakdown, expected_costs |-> costs] :
        d \in {d \in DateInputs : d.departure_date # <<20>>}, f \in FareInputs,
        c \in {c \in CabinInputs : c.cabin_class # <<"Economy">>},
        evidence \in {<<>>, <<TRUE>>}, v \in DrivingInputs,
        hotels \in {<<>>, <<<<150, 160>>>>},
        o \in {o \in OvernightInputs : o.distance_from_office_miles # <<60>>},
        m \in MealInputs, expenses \in {<<>>, <<<<"taxi", "liquor">>>>},
        payments \in {<<>>, <<<<TRUE, FALSE>>>>},
        breakdown \in ExpenseBreakdowns, costs \in ExpectedCosts}

check_call(op, rules, trip, status, issues) ==
    [op |-> op, rules |-> rules, trip |-> trip, status |-> status, issues |-> issues]

\* check_trip_plan(plan)
CheckTripPlan ==
    /\ last.op = "args"
    /\ LET checked == check_trip_plan(last.rules, last.trip)
       IN  last' = check_call("check_trip_plan", last.rules, last.trip,
                              checked.status, checked.issues)
    /\ UNCHANGED <<plan, files, callers, clock, tampered, loaded, request>>

InitCheck ==
    /\ plan \in [trip_id : {"T1"}, status : {"draft"},
                 approval_history : {<<>>}, validation_results : {<<>>}]
    /\ files = {}
    /\ \E config \in YamlConfigs, trip \in CheckPlans :
           last = check_call("args", from_yaml(config), trip, "", <<>>)
    /\ callers = <<>>
    /\ clock = 0
    /\ tampered = <<>>
    /\ loaded = <<>>
    /\ request = None

NextCheck ==
    \/ CheckTripPlan

SpecCheck == InitCheck /\ [][NextCheck]_vars

---------------------------------------------------------------------------
(* simulate_policy_change (policy_versioning.py:125-148) *)

\* Bound on the number of historical contexts replayed in one simulation.
MaxContexts == 2

\* Bound on the number of times a simulation is run on the same inputs.
MaxRuns == 2

\* The historical contexts: only the dates and the fare evidence are known.
HistoricalContexts ==
    {[booking_date |-> d.booking_date, departure_date |-> d.departure_date,
      selected_fare |-> <<>>, lowest_fare |-> <<>>, cabin_class |-> <<>>,
      flight_duration_hours |-> <<>>, fare_evidence_attached |-> evidence,
      driving_cost |-> <<>>, flight_cost |-> <<>>, comparable_hotels |-> <<>>,
      distance_from_office_miles |-> <<>>, overnight_stay |-> <<>>,
      meals_provided |-> <<>>, meal_per_diem_requested |-> <<>>,
      expenses |-> <<>>, third_party_payments |-> <<>>] :
        d \in DateInputs, evidence \in {<<>>, <<TRUE>>}}

\* The lists of historical contexts handed to a simulation.
ContextLists ==
    UNION {[1..n -> HistoricalContexts] : n \in 0..MaxContexts}

\* PolicyChangeSimulationResult(context, current_results, proposed_results)
PolicyChangeSimulationResult(context, current_results, proposed_results) ==
    [context |-> context, current_results |-> current_results,
     proposed_results |-> proposed_results]

\* A simulation that replays every context through the current engine only.
simulate_current_only(current_engine, proposed_engine, historical_contexts) ==
    [i \in 1..Len(historical_contexts) |->
        PolicyChangeSimulationResult(historical_contexts[i],
                                     validate(current_engine, historical_contexts[i]),
                                     validate(current_engine, historical_contexts[i]))]

\* simulate_policy_change(current_engine, proposed_engine, historical_contexts)
simulate_policy_change(current_engine, proposed_engine, historical_contexts) ==
    [i \in 1..Len(historical_contexts) |->
        PolicyChangeSimulationResult(historical_contexts[i],
                                     validate(current_engine, historical_contexts[i]),
                                     validate(proposed_engine, historical_contexts[i]))]

simulate_call(op, current_engine, proposed_engine, historical_contexts, runs, simulations) ==
    [op |-> op, current_engine |-> current_engine, proposed_engine |-> proposed_engine,
     historical_contexts |-> historical_contexts, runs |-> runs,
     simulations |-> simulations]

\* One run of simulate_policy_change on the inputs at hand: validate reads
\* the rules of an engine and assigns nothing, and no store is passed in.
Simulate ==
    /\ last.op \in {"args", "simulate"}
    /\ last.runs < MaxRuns
    /\ last' = simulate_call("simulate", last.current_engine, last.proposed_engine,
                             last.historical_contexts, last.runs + 1,
                             simulate_policy_change(last.current_engine,
                                                    last.proposed_engine,
                                                    last.historical_contexts))
    /\ UNCHANGED <<plan, files, callers, clock, tampered, loaded, request>>

\* A store that holds nothing, or one snapshot of the plan.
SimulationStores ==
    {{},
     {[trip |-> "T1", name |-> filename(<<0, 0>>),
       data |-> snapshot_from_plan(other_plan("T1"), validate_plan(other_plan("T1")),
                                   policy_version_hash, NoHash, <<0, 0>>,
                                   MaxSnapshotBytes),
       created |-> 0]}}

InitSimulate ==
    /\ plan \in [trip_id : {"T1"}, status : {"draft"},
                 approval_history : {<<>>}, validation_results : {<<>>}]
    /\ files \in SimulationStores
    /\ \E current \in YamlConfigs, proposed \in YamlConfigs,
          historical_contexts \in ContextLists :
           last = simulate_call("args", from_yaml(current), from_yaml(proposed),
                                historical_contexts, 0, <<>>)
    /\ callers = <<>>
    /\ clock = 0
    /\ tampered = <<>>
    /\ loaded = <<>>
    /\ request = None

NextSimulate ==
    \/ Simulate

SpecSimulate == InitSimulate /\ [][NextSimulate]_vars

---------------------------------------------------------------------------
(* PolicyVersion.from_config on version labels (policy_versioning.py:33-65) *)

\* Bound on the number of dot-separated parts of a version label.
MaxParts == 3

\* The parts a label is written with; "x" is no integer.
LabelParts == IntegerParts \cup {"x"}

\* The version labels handed to from_config, None included.
VersionLabels ==
    {NoVersion} \cup UNION {[1..n -> LabelParts] : n \in 1..MaxParts}

label_call(op, version, rule_config, policy, error) ==
    [op |-> op, version |-> version, rule_config |-> rule_config,
     policy |-> policy, error |-> error]

\* PolicyVersion.from_config(version, rule_config): _parse_version catches
\* the ValueError of int(), so a PolicyVersion is always returned.
FromLabel ==
    /\ last.op = "args"
    /\ last' = label_call("from_config", last.version, last.rule_config,
                          from_config(last.version, last.rule_config), "")
    /\ UNCHANGED <<plan, files, callers, clock, tampered, loaded, request>>

InitLabel ==
    /\ plan \in [trip_id : {"T1"}, status : {"draft"},
                 approval_history : {<<>>}, validation_results : {<<>>}]
    /\ files = {}
    /\ \E version \in VersionLabels, rule_config \in MappingConfigs :
           last = label_call("args", version, rule_config,
                             PolicyVersion(0, 0, 0, NoHash), "")
    /\ callers = <<>>
    /\ clock = 0
    /\ tampered = <<>>
    /\ loaded = <<>>
    /\ request = None

NextLabel ==
    \/ FromLabel

SpecLabel == InitLabel /\ [][NextLabel]_vars

---------------------------------------------------------------------------
(* ApprovalEngine (approval.py:38-125) and ApprovalRule (models.py:52-90).
   The timestamp and the reason text of a decision are left out. *)

\* Bound on the number of rules of an approval engine.
MaxApprovalRules == 2

\* Bound on the number of expenses of a report.
MaxExpenses == 2

ApprovalAction == {"auto_approve", "require_approval"}

\* The threshold of the rules and the amounts on each side of it.
RuleThreshold == 100
ExpenseAmounts == {RuleThreshold - 50, RuleThreshold, RuleThreshold + 50}

ExpenseCategories == {"meals", "lodging"}

\* The i-th configured rule is named after its place in the configuration.
rule_name(i) == <<"rule", i>>

\* The name of the decision no rule stands behind.
NoRuleTriggered == <<"no_rule_triggered", 0>>

\* The rule lists of an engine: each rule for every category or for meals.
ApprovalRuleLists ==
    UNION {{[i \in 1..n |->
                [name |-> rule_name(i), threshold |-> RuleThreshold,
                 category |-> shape[i][1], approver |-> "manager",
                 action |-> shape[i][2]]] :
            shape \in [1..n -> {None, "meals"} \X ApprovalAction]} :
           n \in 0..MaxApprovalRules}

\* ExpenseItem(category, amount)
ExpenseItems == [category : ExpenseCategories, amount : ExpenseAmounts]

\* The expenses of a report.
ExpenseLists == UNION {[1..n -> ExpenseItems] : n \in 0..MaxExpenses}

\* ApprovalRule.matches(expense)
matches(rule, expense) ==
    IF rule.category = None THEN TRUE ELSE expense.category = rule.category

\* ApprovalRule.evaluate(expense): the status when triggered, else None.
rule_evaluate(rule, expense) ==
    IF rule.action = "auto_approve" /\ expense.amount <= rule.threshold
    THEN "auto_approved"
    ELSE IF rule.action = "require_approval" /\ expense.amount >= rule.threshold
         THEN "flagged"
         ELSE None

\* ApprovalDecision(expense, status, rule_name, approver)
ApprovalDecision(expense, status, name, approver) ==
    [expense |-> expense, status |-> status, rule_name |-> name, approver |-> approver]

\* An evaluation in which the first rule that matches the category decides,
\* triggered or not.
RECURSIVE evaluate_expense_first_match(_, _)
evaluate_expense_first_match(rules, expense) ==
    IF rules = <<>>
    THEN ApprovalDecision(expense, "pending", NoRuleTriggered, "unassigned")
    ELSE IF ~matches(Head(rules), expense)
         THEN evaluate_expense_first_match(Tail(rules), expense)
         ELSE IF rule_evaluate(Head(rules), expense) # None
              THEN ApprovalDecision(expense, rule_evaluate(Head(rules), expense),
                                    Head(rules).name, Head(rules).approver)
              ELSE ApprovalDecision(expense, "pending", NoRuleTriggered, "unassigned")

\* ApprovalEngine.evaluate_expense(expense): the rules in order, skipping
\* those that do not match and those that are not triggered.
RECURSIVE evaluate_expense(_, _)
evaluate_expense(rules, expense) ==
    IF rules = <<>>
    THEN ApprovalDecision(expense, "pending", NoRuleTriggered, "unassigned")
    ELSE IF matches(Head(rules), expense) /\ rule_evaluate(Head(rules), expense) # None
         THEN ApprovalDecision(expense, rule_evaluate(Head(rules), expense),
                               Head(rules).name, Head(rules).approver)
         ELSE evaluate_expense(Tail(rules), expense)

\* ApprovalEngine.evaluate_report(report): the report with its decisions and
\* its status set.
evaluate_report(rules, report) ==
    LET decisions == [i \in 1..Len(report.expenses) |->
                         evaluate_expense(rules, report.expenses[i])]
        status ==
            IF decisions = <<>> THEN "pending"
            ELSE IF \E i \in 1..Len(decisions) : decisions[i].status = "flagged"
                 THEN "flagged"
                 ELSE IF \A i \in 1..Len(decisions) : decisions[i].status = "auto_approved"
                      THEN "auto_approved"
                      ELSE "pending"
    IN  [report EXCEPT !.approval_decisions = decisions, !.approval_status = status]

\* ExpenseReport(expenses=...): pending, with no decisions.
ExpenseReport(expenses) ==
    [expenses |-> expenses, approval_status |-> "pending", approval_decisions |-> <<>>]

report_call(op, rules, report) == [op |-> op, rules |-> rules, report |-> report]

\* engine.evaluate_report(report)
EvaluateReport ==
    /\ last.op = "args"
    /\ last' = report_call("evaluate_report", last.rules,
                           evaluate_report(last.rules, last.report))
    /\ UNCHANGED <<plan, files, callers, clock, tampered, loaded, request>>

InitReport ==
    /\ plan \in [trip_id : {"T1"}, status : {"draft"},
                 approval_history : {<<>>}, validation_results : {<<>>}]
    /\ files = {}
    /\ \E rules \in ApprovalRuleLists, expenses \in ExpenseLists :
           last = report_call("args", rules, ExpenseReport(expenses))
    /\ callers = <<>>
    /\ clock = 0
    /\ tampered = <<>>
    /\ loaded = <<>>
    /\ request = None

NextReport ==
    \/ EvaluateReport

SpecReport == InitReport /\ [][NextReport]_vars

---------------------------------------------------------------------------
(* Claims about the snapshot chain *)

\* The loaded snapshots of a trip in the order in which their files were created.
RECURSIVE in_creation_order(_)
in_creation_order(S) ==
    IF S = {} THEN <<>>
    ELSE LET m == CHOOSE f \in S : \A g \in S : f.created <= g.created
         IN  <<load_snapshot(m)>> \o in_creation_order(S \ {m})

\* A sequence of snapshots is a chain: the first has no previous_hash, each
\* other one carries the chain_hash of the one before it.
IsChain(seq) ==
    /\ seq # <<>> => seq[1].previous_hash = NoHash
    /\ \A i \in 2..Len(seq) : seq[i].previous_hash = seq[i - 1].chain_hash

\* C1: after any sequence of appends for one trip, each seeded with
\* last_chain_hash read immediately before it, the first stored snapshot has
\* no previous_hash and the i-th stored snapshot carries the chain_hash of
\* the (i-1)-th, the snapshots taken in the order in which they were appended.
C1_ChainIntact ==
    \A trip \in TripIds : IsChain(in_creation_order(trip_files(trip)))

\* C2: an append whose target identity (trip and time-stamped name) is already
\* stored fails, and no stored record changes.
C2_ExistingIdentityRefused ==
    [][(/\ last'.op \in {"append", "record_store"}
        /\ \E f \in files : f.trip = last'.trip /\ f.name = last'.name)
       => (~last'.ok /\ files' = files)]_vars

\* C2 witness: an append was refused because its file already existed.
C2_Witness ==
    /\ last.op = "append"
    /\ last.error = "FileExistsError"
    /\ \E f \in files : f.trip = last.trip /\ f.name = last.name

---------------------------------------------------------------------------
(* Claims about the approval state machine *)

\* The events of a history, as a set.
Events(history) == {history[i] : i \in DOMAIN history}

\* The last call was record_approval_decision.
IsDecision(c) == c.op \in {"record", "record_store"}

\* C5: a decision with outcome overridden and a missing or empty
\* justification raises the validation error and leaves the status, the
\* history and the store as they were; no such decision is ever recorded.
C5_OverrideRejectedBeforeMutation ==
    [][/\ (IsDecision(last') /\ last'.error = OverrideError)
            => (plan' = plan /\ files' = files)
       /\ \A e \in Events(plan'.approval_history) :
            ~(e.outcome = "overridden" /\ e.justification \in {None, ""})]_vars

\* C5 witness: an override without justification was refused on a plan that
\* has a history and a stored snapshot.
C5_Witness ==
    /\ last.op = "record_store"
    /\ last.error = OverrideError
    /\ plan.approval_history # <<>>
    /\ files # {}

\* The status the specification fixes for an outcome.
MappedStatus(outcome) ==
    CASE outcome \in {"approved", "overridden"} -> "approved"
      [] outcome = "rejected" -> "rejected"
      [] outcome = "flagged" -> "submitted"

\* C6: after every successful decision the status is the one mapped from the
\* outcome, and the new event records the status before the call and the
\* mapped status.
C6_StatusFollowsOutcome ==
    [][(IsDecision(last') /\ last'.ok) =>
        LET h == plan'.approval_history
            e == h[Len(h)]
        IN  /\ Len(h) = Len(plan.approval_history) + 1
            /\ plan'.status = MappedStatus(e.outcome)
            /\ e.previous_status = plan.status
            /\ e.new_status = MappedStatus(e.outcome)]_vars

\* C6 witness: a flagged decision succeeded on an approved plan.
C6_Witness ==
    /\ IsDecision(last) /\ last.ok
    /\ Len(plan.approval_history) = 2
    /\ plan.approval_history[2].outcome = "flagged"
    /\ plan.approval_history[2].previous_status = "approved"
    /\ plan.status = "submitted"

\* C7: the history is append-only: a successful decision adds exactly one
\* event at the end, a failed decision leaves the history unchanged, and the
\* events already present keep their content and order.
C7_HistoryAppendOnly ==
    [][LET h == plan.approval_history
           h2 == plan'.approval_history
       IN  IF IsDecision(last') /\ last'.ok
           THEN Len(h2) = Len(h) + 1 /\ SubSeq(h2, 1, Len(h)) = h
           ELSE h2 = h]_vars

\* The transitions of draft -> submitted -> approved | rejected, a flagged
\* decision keeping the plan at submitted.
StateMachine ==
    {<<"draft", "submitted">>, <<"submitted", "submitted">>,
     <<"submitted", "approved">>, <<"submitted", "rejected">>}

\* C8 as stated: the status changes only along the state machine.
C8_OnlyStateMachineTransitions ==
    [][plan'.status # plan.status => <<plan.status, plan'.status>> \in StateMachine]_vars

\* C8 as amended: the status changes only when a decision appends an event,
\* and then to the status mapped from the outcome, whatever the status was.
C8_StatusChangesOnlyByDecision ==
    [][plan'.status # plan.status =>
        LET h == plan'.approval_history
        IN  /\ Len(h) = Len(plan.approval_history) + 1
            /\ plan'.status \in {"submitted", "approved", "rejected"}
            /\ h[Len(h)].new_status = plan'.status]_vars

\* C8 witness: a plan went from draft directly to approved.
C8_Witness ==
    /\ plan.status = "approved"
    /\ Len(plan.approval_history) = 1
    /\ plan.approval_history[1].previous_status = "draft"

---------------------------------------------------------------------------
(* Claims about concurrent appends, tampering, events and escalation *)

\* C3: when callers read the chain head and write their snapshot concurrently,
\* no two stored snapshots of one trip carry the same previous_hash.
C3_NoSharedPreviousHash ==
    \A f \in files, g \in files :
        (f # g /\ f.trip = g.trip) => f.data.previous_hash # g.data.previous_hash

\* C4: after a hashed field of a stored snapshot that is not the last of its
\* trip was altered, walking the trip's chain again finds a link whose
\* previous_hash differs from the chain hash recomputed for its predecessor.
C4_TamperDetected ==
    (last.op = "load" /\ tampered # <<>> /\ last.trip = tampered[1]) =>
        \E i \in 2..Len(loaded) : loaded[i].previous_hash # loaded[i - 1].chain_hash

\* A chain of three is walked after its middle snapshot was altered and the
\* hashes stored beside it were rewritten to match.
C4_Witness ==
    /\ last.op = "load"
    /\ tampered # <<>>
    /\ last.trip = tampered[1]
    /\ Len(loaded) = 3
    /\ \E f \in files :
           /\ <<f.trip, f.name>> = tampered
           /\ f.name = sorted(trip_files(f.trip))[2].name
           /\ f.data = set_hashes(f.data)

\* C9: constructing an ApprovalEvent fails exactly when the outcome is
\* overridden and the justification is missing or empty.
C9_EventFailsIffOverrideUnjustified ==
    last.op = "event" =>
        (~last.ok <=> (last.event.outcome = "overridden"
                       /\ last.event.justification \in {None, ""}))

\* An override with an empty justification was refused.
C9_Witness ==
    /\ last.op = "event"
    /\ ~last.ok
    /\ last.event.outcome = "overridden"
    /\ last.event.justification = ""

\* C10: one escalate_if_overdue call on a pending or escalated request whose
\* age since the later of request and last escalation exceeds 48 hours raises
\* manager to director and director to board, sets the status to escalated
\* and escalated_at to the reference time; at an age of 48 hours or less the
\* call changes nothing and returns false.
C10_EscalatesOnlyPastWindow ==
    [][(last'.op = "escalate" /\ request.status \in {"pending", "escalated"}) =>
        LET since == IF request.escalated_at # NoTime
                     THEN request.escalated_at ELSE request.requested_at
            age == last'.at - since
        IN  IF age > 48
            THEN /\ request.approval_level = "manager" =>
                        request'.approval_level = "director"
                 /\ request.approval_level = "director" =>
                        request'.approval_level = "board"
                 /\ request'.status = "escalated"
                 /\ request'.escalated_at = last'.at
            ELSE /\ request' = request
                 /\ last'.ret = FALSE]_vars

\* C11: of two consecutive escalate_if_overdue calls whose reference times lie
\* less than 48 hours apart, the second not earlier than the first, at most
\* one escalates: after a first call that escalated, the second returns false
\* and leaves approval_level, status and escalated_at as they were.
C11_AtMostOnceWithinWindow ==
    [][(/\ last.op = "escalate"
        /\ last.ret = TRUE
        /\ last'.op = "escalate"
        /\ last'.at >= last.at
        /\ last'.at - last.at < 48) =>
            /\ last'.ret = FALSE
            /\ request'.approval_level = request.approval_level
            /\ request'.status = request.status
            /\ request'.escalated_at = request.escalated_at]_vars

\* A request escalated at hour 48 was looked at again at hour 49 and refused.
C11_Witness ==
    /\ last.op = "escalate"
    /\ last.ret = FALSE
    /\ last.at = 49
    /\ request.status = "escalated"
    /\ request.escalated_at = 48

---------------------------------------------------------------------------
(* Claims about the routing of exception requests *)

\* The position of a level in manager < director < board.
Rank(level) ==
    IF level = "manager" THEN 0 ELSE IF level = "director" THEN 1 ELSE 2

\* The level a type is routed to when the amount plays no part.
Baseline(exception_type) ==
    IF exception_type = "local_overnight" THEN "director" ELSE "manager"

\* C12: the routing returns board from 20000 on, at least director from 5000
\* on and the type's baseline below that or without an amount; the result is
\* never below the baseline and never drops when the amount grows.
C12_RoutingByThresholds ==
    last.op = "route" =>
        /\ (last.amount # NoAmount /\ last.amount >= 20000) => last.level = "board"
        /\ (last.amount # NoAmount /\ last.amount >= 5000) => Rank(last.level) >= 1
        /\ (last.amount = NoAmount \/ last.amount < 5000) =>
               last.level = Baseline(last.type)
        /\ Rank(last.level) >= Rank(Baseline(last.type))
        /\ (last.amount # NoAmount /\ last.other # NoAmount /\ last.amount <= last.other) =>
               Rank(last.level) <= Rank(last.other_level)

\* A manager-baseline type was routed to board at exactly 20000 and to
\* director at exactly 5000.
C12_Witness ==
    /\ last.op = "route"
    /\ last.type = "advance_booking"
    /\ last.amount = 5000
    /\ last.level = "director"
    /\ last.other = 20000
    /\ last.other_level = "board"

\* C13: right after creation the approval_level of a request is the level
\* the threshold table gives for its type and amount, whatever else the
\* caller passed to the constructor.
C13_CreatedAtTableLevel ==
    last.op = "create" =>
        request.approval_level =
            determine_exception_approval_level(request.type, request.amount)

---------------------------------------------------------------------------
(* Claims about compare_results *)

\* The rule codes of a list of results or of a list of deltas.
Codes(results) == {results[i].code : i \in 1..Len(results)}

DeltaCodes(deltas) == {deltas[i].rule_code : i \in 1..Len(deltas)}

\* The (severity, message, blocking) triple of a result.
Triple(result) == <<result.severity, result.message, result.blocking>>

\* The results of a list that carry a code.
WithCode(results, code) == {result \in Range(results) : result.code = code}

\* The code occurs in exactly one position of the list.
OccursOnce(results, code) ==
    Cardinality({i \in 1..Len(results) : results[i].code = code}) = 1

\* C14: comparing a list of results with itself reports nothing as changed,
\* also when several results of the list share a code.
C14_SelfComparisonUnchanged ==
    (last.op = "compare" /\ last.original = last.rechecked) =>
        last.comparison.changed = <<>>

\* A list of two different results with one code was compared with itself.
C14_Witness ==
    /\ last.op = "compare"
    /\ last.original = last.rechecked
    /\ Len(last.original) = 2
    /\ last.original[1].code = last.original[2].code
    /\ last.original[1] # last.original[2]
    /\ DeltaCodes(last.comparison.unchanged) = {last.original[1].code}

Reorderings(seq) ==
    {p \in [1..Len(seq) -> Range(seq)] :
        \E f \in [1..Len(seq) -> 1..Len(seq)] :
            /\ \A i, j \in 1..Len(seq) : i # j => f[i] # f[j]
            /\ \A i \in 1..Len(seq) : p[i] = seq[f[i]]}

\* C16: the set of codes reported as changed is the same for every order of
\* the results within either list, also when results share a code.
C16_ChangedCodesOrderFree ==
    last.op = "compare" =>
        \A original \in Reorderings(last.original), rechecked \in Reorderings(last.rechecked) :
            DeltaCodes(compare_results(original, rechecked).changed)
                = DeltaCodes(last.comparison.changed)

---------------------------------------------------------------------------
(* Claims about policy versions *)

\* What a dict of atoms says, whatever the order of its keys.
Content(entry) == {<<item.key, item.value.text>> : item \in Range(entry.items)}

\* The value under "rules" of a configuration.
RulesOf(config) == config.items[1].value

\* The two configurations hold the same rules with the same parameters and
\* severities: as lists, the same entries up to their order and the order of
\* their keys; as mappings, the same ids with the same parameters.
SameRules(first, second) ==
    LET x == RulesOf(first)
        y == RulesOf(second)
        n == Len(x.items)
    IN  /\ x.kind = y.kind
        /\ Len(y.items) = n
        /\ IF x.kind = "list"
           THEN \E f \in [1..n -> 1..n] :
                    /\ \A i, j \in 1..n : i # j => f[i] # f[j]
                    /\ \A i \in 1..n : Content(x.items[i]) = Content(y.items[f[i]])
           ELSE {<<item.key, Content(item.value)>> : item \in Range(x.items)}
                = {<<item.key, Content(item.value)>> : item \in Range(y.items)}

\* C17: from_config gives two configurations that hold the same rules with
\* the same parameters and severities the same config_hash, in whatever order
\* keys or rules were supplied; the hashes differ only when the rules differ.
C17_SameRulesSameHash ==
    (last.op = "from_config" /\ SameRules(last.first, last.second)) =>
        last.first_version.config_hash = last.second_version.config_hash

\* C18: change_type answers no-op for equal hashes whatever the labels;
\* for different hashes it answers breaking when the majors differ, else
\* feature when the minors differ, else patch when the patches differ, else
\* config-drift.
C18_ChangeTypeOrder ==
    last.op = "change_type" =>
        LET same_hash == last.self.config_hash = last.previous.config_hash
            same_major == last.self.major = last.previous.major
            same_minor == last.self.minor = last.previous.minor
            same_patch == last.self.patch = last.previous.patch
        IN  /\ same_hash => last.result = "no-op"
            /\ (~same_hash /\ ~same_major) => last.result = "breaking"
            /\ (~same_hash /\ same_major /\ ~same_minor) => last.result = "feature"
            /\ (~same_hash /\ same_major /\ same_minor /\ ~same_patch) =>
                   last.result = "patch"
            /\ (~same_hash /\ same_major /\ same_minor /\ same_patch) =>
                   last.result = "config-drift"

\* Two versions with equal hashes and different majors were compared.
C18_Witness ==
    /\ last.op = "change_type"
    /\ last.self.config_hash = last.previous.config_hash
    /\ last.self.major # last.previous.major
    /\ last.result = "no-op"

---------------------------------------------------------------------------
(* Claims about the policy engine *)

\* The context in which every field is absent.
EmptyContext ==
    [booking_date |-> <<>>, departure_date |-> <<>>, selected_fare |-> <<>>,
     lowest_fare |-> <<>>, cabin_class |-> <<>>, flight_duration_hours |-> <<>>,
     fare_evidence_attached |-> <<>>, driving_cost |-> <<>>, flight_cost |-> <<>>,
     comparable_hotels |-> <<>>, distance_from_office_miles |-> <<>>,
     overnight_stay |-> <<>>, meals_provided |-> <<>>,
     meal_per_diem_requested |-> <<>>, expenses |-> <<>>, third_party_payments |-> <<>>]

\* C19: validate returns one result per configured rule, in registration
\* order, the i-th result carrying the i-th rule's rule_id, for every
\* context, the one with every field absent included.
C19_OneResultPerRule ==
    last.op = "validate" =>
        /\ Len(last.results) = Len(last.rules)
        /\ \A i \in 1..Len(last.rules) : last.results[i].rule_id = last.rules[i].rule_id

\* The ten rules were evaluated on the context with every field absent.
C19_Witness ==
    /\ last.op = "validate"
    /\ last.context = EmptyContext
    /\ Len(last.results) = 10
    /\ last.results[1].message = "skipped"

\* The results of a call, whichever of the two calls it was.
Evaluated == [i \in 1..Len(last.rules) |-> evaluate(last.rules[i], last.context)]

\* C20: a result with passed=true has severity info whatever severity its
\* rule was configured with, a result with passed=false has the configured
\* severity, and blocking_results returns exactly the failed results of the
\* rules configured as blocking.
C20_SeverityOnlyOnFailure ==
    /\ last.op = "validate" =>
           \A i \in 1..Len(last.results) :
               /\ last.results[i].passed => last.results[i].severity = "info"
               /\ ~last.results[i].passed =>
                      last.results[i].severity = last.rules[i].severity
    /\ last.op = "blocking_results" =>
           LET kept == {i \in 1..Len(last.rules) :
                           last.rules[i].severity = "blocking" /\ ~Evaluated[i].passed}
           IN  /\ Len(last.results) = Cardinality(kept)
               /\ \A k \in 1..Len(last.results) :
                      \E i \in kept :
                          /\ Cardinality({j \in kept : j < i}) = k - 1
                          /\ last.results[k].rule_id = last.rules[i].rule_id
                          /\ ~last.results[k].passed

\* Rules configured as blocking passed and were reported at info, and others
\* failed and were reported as blocking.
C20_Witness ==
    /\ last.op = "validate"
    /\ \A i \in 1..Len(last.rules) : last.rules[i].severity = "blocking"
    /\ \E i \in 1..Len(last.results) :
           last.results[i].passed /\ last.results[i].severity = "info"
    /\ \E i \in 1..Len(last.results) :
           ~last.results[i].passed /\ last.results[i].severity = "blocking"

\* C21: a built-in rule that finds a context field it requires absent
\* returns a passing result at severity info; a missing input never yields a
\* failed result.
C21_MissingInputSkips ==
    last.op = "validate" =>
        \A i \in 1..Len(last.rules) :
            missing_fields(last.context, RULE_REQUIRED_FIELDS(last.rules[i].rule_id)) # {} =>
                /\ last.results[i].passed
                /\ last.results[i].severity = "info"

\* The configuration names a rule key that no built-in rule answers to.
names_unknown_rule(config) == config[UnknownRuleKey] # <<>>

\* The configuration names a built-in rule and leaves out a parameter the
\* rule's constructor takes.
omits_parameter(config) ==
    \E i \in 1..Len(RuleKeys) :
        /\ config[RuleKeys[i]] # <<>>
        /\ \E name \in rule_parameters(RuleKeys[i]) : config[RuleKeys[i]][1][name] = <<>>

\* C22: building the engine from a configuration that names an unknown rule
\* id, or that leaves out a parameter a named rule requires, fails with a
\* configuration error; no engine is returned with a default substituted.
C22_BadConfigRejected ==
    (/\ last.op = "from_yaml"
     /\ names_unknown_rule(last.config) \/ omits_parameter(last.config))
        => last.error # ""

\* C23: check_trip_plan turns every failed rule result, and no passing one,
\* into exactly one issue whose code is the rule id, with severity error for
\* a blocking failure and warning for an advisory failure; the status is fail
\* exactly when some rule failed at blocking severity.
C23_IssuesMatchFailures ==
    last.op = "check_trip_plan" =>
        LET results == validate(last.rules, context_from_plan(last.trip))
            issued(i) == {j \in 1..Len(last.issues) :
                              last.issues[j].code = results[i].rule_id}
        IN  /\ \A i \in 1..Len(results) :
                  IF results[i].passed THEN issued(i) = {}
                  ELSE /\ Cardinality(issued(i)) = 1
                       /\ \A j \in issued(i) :
                            /\ results[i].severity = "blocking"
                                  => last.issues[j].severity = "error"
                            /\ results[i].severity = "advisory"
                                  => last.issues[j].severity = "warning"
            /\ \A j \in 1..Len(last.issues) :
                  \E i \in 1..Len(results) : results[i].rule_id = last.issues[j].code
            /\ last.status = "fail"
                  <=> \E i \in 1..Len(results) :
                        ~results[i].passed /\ results[i].severity = "blocking"

\* A check with a blocking failure, an advisory failure and a passing rule.
C23_Witness ==
    /\ last.op = "check_trip_plan"
    /\ last.status = "fail"
    /\ \E j \in 1..Len(last.issues) : last.issues[j].severity = "warning"
    /\ \E j \in 1..Len(last.issues) : last.issues[j].severity = "error"
    /\ Len(last.issues) < Len(last.rules)

\* C24: an append of a snapshot whose serialized form is longer than 10240
\* bytes fails and stores nothing: the stored files and the last_chain_hash
\* of every trip are as before the call.
C24_OversizeStoresNothing ==
    [][(last'.op = "append" /\ last'.bytes > MaxSnapshotBytes)
       => /\ ~last'.ok
          /\ files' = files
          /\ \A trip \in TripIds : last_chain_hash(trip)' = last_chain_hash(trip)]_vars

\* C24 witness: an oversize append was refused by a store that holds
\* snapshots of the trip.
C24_Witness ==
    /\ last.op = "append"
    /\ last.bytes = MaxSnapshotBytes + 1
    /\ last.error = SizeError
    /\ trip_files(last.trip) # {}
    /\ ~path_exists(last.trip, last.name)

\* C25: after any sequence of successful appends, load_trip_snapshots returns
\* the snapshots of a trip in the order in which they were appended and
\* last_chain_hash returns the chain_hash of the one appended last, whatever
\* their timestamps; with nothing stored for the trip, last_chain_hash is None.
C25_LoadInAppendOrder ==
    \A trip \in TripIds :
        LET appended == in_creation_order(trip_files(trip))
        IN  /\ load_trip_snapshots(trip) = appended
            /\ last_chain_hash(trip) =
                   IF appended = <<>> THEN NoHash ELSE appended[Len(appended)].chain_hash

malformed(version) == \E i \in 1..Len(version) : version[i] \notin IntegerParts

\* C27: from_config given a version label with a component that is not an
\* integer fails with a configuration error; it never returns a PolicyVersion
\* that carries a substituted default version.
C27_MalformedLabelRejected ==
    (last.op = "from_config" /\ malformed(last.version)) => last.error # ""

\* The places in the configuration of the rules that match the category of
\* the expense and are triggered by its amount.
Triggered(rules, expense) ==
    {k \in 1..Len(rules) :
        /\ rules[k].category \in {None, expense.category}
        /\ \/ rules[k].action = "auto_approve" /\ expense.amount <= rules[k].threshold
           \/ rules[k].action = "require_approval" /\ expense.amount >= rules[k].threshold}

\* C28: evaluate_report gives each expense the decision of the first rule, in
\* configuration order, that matches its category and is triggered by its
\* amount, and pending under no_rule_triggered when there is none; the report
\* is flagged if any decision is flagged, auto_approved if there is a decision
\* and all are auto_approved, and pending otherwise.
C28_FirstTriggeredRuleDecides ==
    last.op = "evaluate_report" =>
        LET expenses == last.report.expenses
            decisions == last.report.approval_decisions
            statuses == {decisions[i].status : i \in 1..Len(decisions)}
        IN  /\ Len(decisions) = Len(expenses)
            /\ \A i \in 1..Len(expenses) :
                  LET triggered == Triggered(last.rules, expenses[i])
                  IN  /\ decisions[i].expense = expenses[i]
                      /\ IF triggered = {}
                         THEN /\ decisions[i].status = "pending"
                              /\ decisions[i].rule_name = NoRuleTriggered
                         ELSE LET first == CHOOSE k \in triggered :
                                               \A other \in triggered : k <= other
                              IN  /\ decisions[i].rule_name = last.rules[first].name
                                  /\ decisions[i].status =
                                        IF last.rules[first].action = "auto_approve"
                                        THEN "auto_approved" ELSE "flagged"
            /\ last.report.approval_status =
                  IF "flagged" \in statuses THEN "flagged"
                  ELSE IF statuses = {"auto_approved"} THEN "auto_approved"
                  ELSE "pending"

\* C28 witness: a flagged report in which the second rule decided an expense
\* that the first rule matched without being triggered, next to an expense
\* that was approved automatically.
C28_Witness ==
    /\ last.op = "evaluate_report"
    /\ last.report.approval_status = "flagged"
    /\ \E i \in 1..Len(last.report.expenses) :
          /\ last.report.approval_decisions[i].rule_name = rule_name(2)
          /\ last.rules[1].category \in {None, last.report.expenses[i].category}
    /\ \E i \in 1..Len(last.report.expenses) :
          last.report.approval_decisions[i].status = "auto_approved"

\* C29: record_approval_decision with a snapshot_store is all-or-nothing: a
\* call that raises because the append of the snapshot fails (the snapshot's
\* file exists, or the snapshot is over the size ceiling) leaves the status
\* and the approval_history of the plan as they were before the call.
C29_DecisionAllOrNothing ==
    [][(last'.op = "record_store" /\ last'.error \in {SizeError, "FileExistsError"})
       => /\ plan'.status = plan.status
          /\ plan'.approval_history = plan.approval_history]_vars

\* C30: on a request that is approved or rejected, escalate_if_overdue
\* returns false at every reference time and leaves status, approval_level
\* and escalated_at as they were; and no call of escalate_if_overdue on any
\* request lowers the approval_level or takes it beyond board.
C30_EscalationFrame ==
    [][last'.op = "escalate" =>
        /\ request.status \in {"approved", "rejected"} =>
              /\ ~last'.ret
              /\ request'.status = request.status
              /\ request'.approval_level = request.approval_level
              /\ request'.escalated_at = request.escalated_at
        /\ approval_rank(request'.approval_level) >= approval_rank(request.approval_level)
        /\ approval_rank(request'.approval_level) <= approval_rank("board")]_vars

\* C30 witness: escalate_if_overdue was called long past the window on a
\* request that had been escalated to board and then approved or rejected.
C30_Witness ==
    /\ last.op = "escalate"
    /\ last.at >= 2 * ESCALATION_WINDOW
    /\ ~last.ret
    /\ request.status \in {"approved", "rejected"}
    /\ request.escalated_at # NoTime
    /\ request.approval_level = "board"

====
